---- MODULE Spec2Model ----
(***************************************************************************)
(* Voxel store (VoxelMesh), action history (ActionHistory) and the editor  *)
(* handlers (BoxelEditor) of the boxel editor.                             *)
(*                                                                         *)
(* Identifiers: the voxel id `voxel_${n}` is modelled by the number n, the *)
(* vertex id `v_${n}` by n, the action id `action_${n}` by n.  A color-map *)
(* key `${voxelId}_${faceId}` is the pair <<voxelId, faceId>>.             *)
(*                                                                         *)
(* Face objects are shared by reference between a voxel, the snapshot      *)
(* deleteVoxel returns and the voxel a history action carries, and         *)
(* restoreVoxel / colorSpecificFace assign face.color in place.  The six   *)
(* face objects of one voxel live at one heap address (field obj); their   *)
(* cached colors are faceColor[obj].                                       *)
(***************************************************************************)
EXTENDS Integers, Sequences, FiniteSets, TLC

VARIABLES
    voxels,           \* VoxelMesh.voxels: voxel id -> Voxel
    colorMap,         \* VoxelMesh.colorMap: <<voxel id, face id>> -> color
    vertexIdCounter,  \* VoxelMesh.vertexIdCounter
    voxelIdCounter,   \* VoxelMesh.voxelIdCounter
    gridBounds,       \* VoxelMesh.minX .. maxZ
    faceColor,        \* heap: address of a voxel's face objects -> face id -> Face.color
    nextObj,          \* next free heap address
    snapshots,        \* snapshots deleteVoxel has returned to the caller
    paints,           \* number of successful colorSpecificFace calls so far
    deletedIds,       \* ids deleteVoxel has removed since the store was last cleared
    lastCall,         \* the last call made and what it returned
    undone,           \* what the editor showed before the undo just made, if one was
    undoStack,        \* ActionHistory.undoStack
    redoStack,        \* ActionHistory.redoStack
    actionIdCounter,  \* ActionHistory.actionIdCounter
    content,          \* the text of the file last written, as the value it parses to
    returned,         \* what the last call on FileManager or a converter returned
    restoredIds       \* ids of the actions restored into the history since it was last cleared

storeVars == <<voxels, colorMap, vertexIdCounter, voxelIdCounter, gridBounds>>
heapVars == <<faceColor, nextObj>>
historyVars == <<undoStack, redoStack, actionIdCounter>>
fileVars == <<content, returned, restoredIds>>
vars == <<voxels, colorMap, vertexIdCounter, voxelIdCounter, gridBounds,
          faceColor, nextObj, snapshots, paints, deletedIds, lastCall, undone,
          undoStack, redoStack, actionIdCounter, content, returned, restoredIds>>

----------------------------------------------------------------------------
(* Bounds of the model *)

\* largest coordinate of a position given to addVoxel (smallest is 0)
MaxCoord == 1
\* number of voxels ever created (groups of face objects ever allocated)
MaxObjs == 2
\* number of snapshots the caller of the store keeps
MaxSnapshots == 1
\* number of successful colorSpecificFace calls
MaxPaints == 2

\* number of voxels ever created in the editor, the initial ones included
MaxEditorObjs == 3
\* number of edits made in the editor
MaxEditorActions == 3
\* actionIdCounter never exceeds this where undo and redo are explored
MaxActions == 4
\* number of pushes past maxStackSize where the cap is explored
CapExtra == 1

\* largest id of an action restored from a file
MaxRestoredId == 2
\* number of actions in the two stacks where restoring is explored
MaxStack == 3

Coords == 0..MaxCoord
\* the positions given to addVoxel; extrusion reaches the others
Positions == [x : Coords, y : {0}, z : {0}]

DEFAULT_COLOR == "#808080"
PaintColors == {"#FF0000", "#0000FF"}

NULL == "null"

----------------------------------------------------------------------------
(* Grid geometry *)

FaceIds == {"face_0", "face_1", "face_2", "face_3", "face_4", "face_5"}

\* the corner offsets v0..v7 of createVertices
vertexPositions(position) ==
    << [x |-> position.x,     y |-> position.y + 1, z |-> position.z],
       [x |-> position.x + 1, y |-> position.y + 1, z |-> position.z],
       [x |-> position.x,     y |-> position.y,     z |-> position.z],
       [x |-> position.x + 1, y |-> position.y,     z |-> position.z],
       [x |-> position.x,     y |-> position.y + 1, z |-> position.z + 1],
       [x |-> position.x + 1, y |-> position.y + 1, z |-> position.z + 1],
       [x |-> position.x,     y |-> position.y,     z |-> position.z + 1],
       [x |-> position.x + 1, y |-> position.y,     z |-> position.z + 1] >>

\* createVertices with this.vertexIdCounter = counter on entry
createVertices(position, counter) ==
    [i \in 1..8 |->
        [id |-> counter + (i - 1),
         x |-> vertexPositions(position)[i].x,
         y |-> vertexPositions(position)[i].y,
         z |-> vertexPositions(position)[i].z]]

faceDefinitions ==
    << [id |-> "top",    indices |-> <<0, 1, 5, 4>>, normal |-> "y+"],
       [id |-> "bottom", indices |-> <<2, 3, 7, 6>>, normal |-> "y-"],
       [id |-> "front",  indices |-> <<0, 1, 3, 2>>, normal |-> "z-"],
       [id |-> "back",   indices |-> <<4, 5, 7, 6>>, normal |-> "z+"],
       [id |-> "left",   indices |-> <<0, 2, 6, 4>>, normal |-> "x-"],
       [id |-> "right",  indices |-> <<1, 3, 7, 5>>, normal |-> "x+"] >>

\* `face_${index}` for index 0..5
faceIdOfIndex(index) ==
    CASE index = 0 -> "face_0"
      [] index = 1 -> "face_1"
      [] index = 2 -> "face_2"
      [] index = 3 -> "face_3"
      [] index = 4 -> "face_4"
      [] index = 5 -> "face_5"

\* createFaces: id, vertexIds and normal of the six faces (the color is in the heap)
createFaces(vertices) ==
    [k \in 1..6 |->
        [id |-> faceIdOfIndex(k - 1),
         vertexIds |-> [j \in 1..4 |-> vertices[faceDefinitions[k].indices[j] + 1].id],
         normal |-> faceDefinitions[k].normal]]

\* the switch on face.normal in addVoxelAtFaceId
newPositionAtFace(position, normal) ==
    CASE normal = "x+" -> [position EXCEPT !.x = @ + 1]
      [] normal = "x-" -> [position EXCEPT !.x = @ - 1]
      [] normal = "y+" -> [position EXCEPT !.y = @ + 1]
      [] normal = "y-" -> [position EXCEPT !.y = @ - 1]
      [] normal = "z+" -> [position EXCEPT !.z = @ + 1]
      [] normal = "z-" -> [position EXCEPT !.z = @ - 1]
      [] OTHER -> position

----------------------------------------------------------------------------
(* Voxel store *)

\* a bound of the grid: a number, or an infinity
Fin(n) == [inf |-> 0, v |-> n]
NEGATIVE_INFINITY == [inf |-> -1, v |-> 0]
POSITIVE_INFINITY == [inf |-> 1, v |-> 0]

\* n < b and n >= b of JavaScript numbers, b possibly infinite
LessThan(n, b) == IF b.inf = 0 THEN n < b.v ELSE b.inf = 1
AtLeast(n, b) == ~LessThan(n, b)

Unbounded ==
    [minX |-> NEGATIVE_INFINITY, maxX |-> POSITIVE_INFINITY,
     minY |-> NEGATIVE_INFINITY, maxY |-> POSITIVE_INFINITY,
     minZ |-> NEGATIVE_INFINITY, maxZ |-> POSITIVE_INFINITY]

\* the store as one value: the fields of a VoxelMesh and the heap of face objects
Store ==
    [voxels |-> voxels, colorMap |-> colorMap,
     vertexIdCounter |-> vertexIdCounter, voxelIdCounter |-> voxelIdCounter,
     gridBounds |-> gridBounds, faceColor |-> faceColor, nextObj |-> nextObj]

SetStore(S) ==
    /\ voxels' = S.voxels
    /\ colorMap' = S.colorMap
    /\ vertexIdCounter' = S.vertexIdCounter
    /\ voxelIdCounter' = S.voxelIdCounter
    /\ gridBounds' = S.gridBounds
    /\ faceColor' = S.faceColor
    /\ nextObj' = S.nextObj

\* a function without the keys in ks
Without(f, ks) == [k \in DOMAIN f \ ks |-> f[k]]
\* a function with key k set to v
With(f, k, v) == [j \in DOMAIN f \cup {k} |-> IF j = k THEN v ELSE f[j]]

faceIdsOf(faces) == {faces[k].id : k \in DOMAIN faces}

\* an argument the caller does not pass
undefined == [inf |-> 2, v |-> 0]

\* setGridBounds(minX, maxX, minY, maxY, minZ = 0, maxZ = Number.POSITIVE_INFINITY)
setGridBounds(S, minX, maxX, minY, maxY, minZ, maxZ) ==
    [S EXCEPT !.gridBounds =
        [minX |-> minX, maxX |-> maxX, minY |-> minY, maxY |-> maxY,
         minZ |-> IF minZ = undefined THEN Fin(0) ELSE minZ,
         maxZ |-> IF maxZ = undefined THEN POSITIVE_INFINITY ELSE maxZ]]

\* the first test of addVoxel
outOfBounds(S, position) ==
    \/ LessThan(position.x, S.gridBounds.minX) \/ AtLeast(position.x, S.gridBounds.maxX)
    \/ LessThan(position.y, S.gridBounds.minY) \/ AtLeast(position.y, S.gridBounds.maxY)
    \/ LessThan(position.z, S.gridBounds.minZ) \/ AtLeast(position.z, S.gridBounds.maxZ)

\* the loop of addVoxel over this.voxels.values()
positionTaken(S, position) ==
    \E id \in DOMAIN S.voxels :
        /\ S.voxels[id].position.x = position.x
        /\ S.voxels[id].position.y = position.y
        /\ S.voxels[id].position.z = position.z

\* createVoxel: a fresh id from voxelIdCounter, 8 fresh vertices, 6 fresh faces
\* colored '#808080'; this.voxels.set(voxelId, voxel)
createVoxel(S, position) ==
    LET voxelId == S.voxelIdCounter
        vertices == createVertices(position, S.vertexIdCounter)
        voxel == [id |-> voxelId, position |-> position, vertices |-> vertices,
                  faces |-> createFaces(vertices), obj |-> S.nextObj]
    IN  [S |-> [S EXCEPT
                  !.voxelIdCounter = @ + 1,
                  !.vertexIdCounter = @ + 8,
                  !.voxels = With(@, voxelId, voxel),
                  !.faceColor = With(@, S.nextObj, [f \in FaceIds |-> DEFAULT_COLOR]),
                  !.nextObj = @ + 1],
         ok |-> TRUE, ret |-> voxel]

\* addVoxel
addVoxel(S, position) ==
    IF outOfBounds(S, position) THEN [S |-> S, ok |-> FALSE, ret |-> NULL]
    ELSE IF positionTaken(S, position) THEN [S |-> S, ok |-> FALSE, ret |-> NULL]
    ELSE createVoxel(S, position)

\* sourceVoxel.faces.find((f) => f.id === faceId): the index of the face, 0 if none
findFace(faces, faceId) ==
    IF \E k \in DOMAIN faces : faces[k].id = faceId
    THEN CHOOSE k \in DOMAIN faces :
            /\ faces[k].id = faceId
            /\ \A j \in DOMAIN faces : faces[j].id = faceId => k <= j
    ELSE 0

\* addVoxelAtFaceId
addVoxelAtFaceId(S, voxelId, faceId) ==
    IF voxelId \notin DOMAIN S.voxels THEN [S |-> S, ok |-> FALSE, ret |-> NULL]
    ELSE LET sourceVoxel == S.voxels[voxelId]
             k == findFace(sourceVoxel.faces, faceId)
         IN  IF k = 0 THEN [S |-> S, ok |-> FALSE, ret |-> NULL]
             ELSE addVoxel(S, newPositionAtFace(sourceVoxel.position,
                                                sourceVoxel.faces[k].normal))

\* the color-map keys `${voxelId}_${face.id}` of a voxel's faces
colorKeys(voxelId, faces) == {<<voxelId, f>> : f \in faceIdsOf(faces)}

\* deleteVoxel without its second forEach, the one that deletes the color keys
deleteVoxel_keepColors(S, voxelId) ==
    IF voxelId \notin DOMAIN S.voxels THEN [S |-> S, ok |-> FALSE, ret |-> NULL]
    ELSE LET voxel == S.voxels[voxelId]
             snapshot ==
                [position |-> voxel.position,
                 vertices |-> voxel.vertices,
                 faces |-> voxel.faces,
                 obj |-> voxel.obj,
                 colors |-> [f \in {g \in faceIdsOf(voxel.faces) :
                                        <<voxelId, g>> \in DOMAIN S.colorMap}
                             |-> S.colorMap[<<voxelId, f>>]]]
         IN  [S |-> [S EXCEPT !.voxels = Without(@, {voxelId})],
              ok |-> TRUE, ret |-> snapshot]

\* deleteVoxel: the snapshot shares the vertex and face objects of the voxel
deleteVoxel(S, voxelId) ==
    IF voxelId \notin DOMAIN S.voxels THEN [S |-> S, ok |-> FALSE, ret |-> NULL]
    ELSE LET voxel == S.voxels[voxelId]
             snapshot ==
                [position |-> voxel.position,
                 vertices |-> voxel.vertices,
                 faces |-> voxel.faces,
                 obj |-> voxel.obj,
                 colors |-> [f \in {g \in faceIdsOf(voxel.faces) :
                                        <<voxelId, g>> \in DOMAIN S.colorMap}
                             |-> S.colorMap[<<voxelId, f>>]]]
         IN  [S |-> [S EXCEPT
                       !.voxels = Without(@, {voxelId}),
                       !.colorMap = Without(@, colorKeys(voxelId, voxel.faces))],
              ok |-> TRUE, ret |-> snapshot]

\* snapshot.colors && snapshot.colors[face.id]; a Voxel handed over as a
\* snapshot has no colors member, and '' is falsy
hasColor(snapshot, faceId) ==
    /\ "colors" \in DOMAIN snapshot
    /\ faceId \in DOMAIN snapshot.colors
    /\ snapshot.colors[faceId] # ""

\* the body of restoreVoxel past its guard: the voxel takes the snapshot's
\* position, vertices and face objects; for each face with a color in
\* snapshot.colors the color map and face.color are set
reinstate(S, voxelId, snapshot) ==
    LET voxel == [id |-> voxelId, position |-> snapshot.position,
                  vertices |-> snapshot.vertices, faces |-> snapshot.faces,
                  obj |-> snapshot.obj]
        colored == {f \in faceIdsOf(snapshot.faces) : hasColor(snapshot, f)}
    IN  [S |-> [S EXCEPT
                  !.voxels = With(@, voxelId, voxel),
                  !.colorMap = [key \in DOMAIN @ \cup {<<voxelId, f>> : f \in colored} |->
                                   IF key[1] = voxelId /\ key[2] \in colored
                                   THEN snapshot.colors[key[2]]
                                   ELSE @[key]],
                  !.faceColor[snapshot.obj] =
                       [f \in DOMAIN @ |->
                           IF f \in colored THEN snapshot.colors[f] ELSE @[f]]],
         ok |-> TRUE, ret |-> TRUE]

\* restoreVoxel without its guard on this.voxels.has(voxelId)
restoreVoxel_unguarded(S, voxelId, snapshot) == reinstate(S, voxelId, snapshot)

\* restoreVoxel that brings the voxel back without its vertices
restoreVoxel_noVertices(S, voxelId, snapshot) ==
    IF voxelId \in DOMAIN S.voxels THEN [S |-> S, ok |-> FALSE, ret |-> FALSE]
    ELSE reinstate(S, voxelId, [snapshot EXCEPT !.vertices = << >>])

\* restoreVoxel
restoreVoxel(S, voxelId, snapshot) ==
    IF voxelId \in DOMAIN S.voxels THEN [S |-> S, ok |-> FALSE, ret |-> FALSE]
    ELSE reinstate(S, voxelId, snapshot)

\* colorSpecificFace
colorSpecificFace_allFaces(S, voxelId, faceId, color) ==
    IF voxelId \notin DOMAIN S.voxels THEN [S |-> S, ok |-> FALSE, ret |-> FALSE]
    ELSE IF findFace(S.voxels[voxelId].faces, faceId) = 0 THEN [S |-> S, ok |-> FALSE, ret |-> FALSE]
    ELSE [S |-> [S EXCEPT
                   !.colorMap = With(@, <<voxelId, faceId>>, color),
                   !.faceColor[S.voxels[voxelId].obj] = [f \in DOMAIN @ |-> color]],
          ok |-> TRUE, ret |-> TRUE]

colorSpecificFace(S, voxelId, faceId, color) ==
    IF voxelId \notin DOMAIN S.voxels THEN [S |-> S, ok |-> FALSE, ret |-> FALSE]
    ELSE IF findFace(S.voxels[voxelId].faces, faceId) = 0 THEN [S |-> S, ok |-> FALSE, ret |-> FALSE]
    ELSE [S |-> [S EXCEPT
                   !.colorMap = With(@, <<voxelId, faceId>>, color),
                   !.faceColor[S.voxels[voxelId].obj][faceId] = color],
          ok |-> TRUE, ret |-> TRUE]

\* getVoxelCount
getVoxelCount(S) == Cardinality(DOMAIN S.voxels)

RECURSIVE countVertices(_, _)
\* the forEach of getVertexCount over the voxels with these ids
countVertices(S, ids) ==
    IF ids = {} THEN 0
    ELSE LET id == CHOOSE id \in ids : TRUE
         IN  Len(S.voxels[id].vertices) + countVertices(S, ids \ {id})

\* getVertexCount
getVertexCount(S) == countVertices(S, DOMAIN S.voxels)

\* clear: the heap of face objects is not the store's to reset
clear(S) ==
    [S EXCEPT !.voxels = << >>, !.colorMap = << >>,
              !.vertexIdCounter = 0, !.voxelIdCounter = 0]

----------------------------------------------------------------------------
(* Action history *)

maxStackSize == 1000

\* the history as one value: the fields of an ActionHistory
History ==
    [undoStack |-> undoStack, redoStack |-> redoStack, actionIdCounter |-> actionIdCounter]

SetHistory(H) ==
    /\ undoStack' = H.undoStack
    /\ redoStack' = H.redoStack
    /\ actionIdCounter' = H.actionIdCounter

\* new Date().toISOString(): the time of the push is not modelled
Timestamp == "timestamp"

Front(q) == SubSeq(q, 1, Len(q) - 1)
Last(q) == q[Len(q)]

\* pushAction with the cap test `length >= maxStackSize`
pushAction_capOffByOne(H, type, data, description, targetObject) ==
    LET action == [id |-> H.actionIdCounter, type |-> type, timestamp |-> Timestamp,
                   description |-> description, data |-> data,
                   targetObject |-> targetObject]
        pushed == Append(H.undoStack, action)
    IN  [undoStack |-> IF Len(pushed) >= maxStackSize THEN Tail(pushed) ELSE pushed,
         redoStack |-> << >>,
         actionIdCounter |-> H.actionIdCounter + 1]

\* pushAction that leaves the redo stack alone
pushAction_keepRedo(H, type, data, description, targetObject) ==
    LET action == [id |-> H.actionIdCounter, type |-> type, timestamp |-> Timestamp,
                   description |-> description, data |-> data,
                   targetObject |-> targetObject]
        pushed == Append(H.undoStack, action)
    IN  [undoStack |-> IF Len(pushed) > maxStackSize THEN Tail(pushed) ELSE pushed,
         redoStack |-> H.redoStack,
         actionIdCounter |-> H.actionIdCounter + 1]

\* pushAction: mint `action_${actionIdCounter++}`, clear the redo stack, push on
\* the undo stack, shift the oldest out past maxStackSize
pushAction(H, type, data, description, targetObject) ==
    LET action == [id |-> H.actionIdCounter, type |-> type, timestamp |-> Timestamp,
                   description |-> description, data |-> data,
                   targetObject |-> targetObject]
        pushed == Append(H.undoStack, action)
    IN  [undoStack |-> IF Len(pushed) > maxStackSize THEN Tail(pushed) ELSE pushed,
         redoStack |-> << >>,
         actionIdCounter |-> H.actionIdCounter + 1]

\* undo that pops the undo stack and forgets the action
undo_forget(H) ==
    IF Len(H.undoStack) = 0 THEN [H |-> H, ok |-> FALSE, ret |-> NULL]
    ELSE [H |-> [H EXCEPT !.undoStack = Front(@)],
          ok |-> TRUE, ret |-> Last(H.undoStack)]

\* undo: null on an empty undo stack, else pop it onto the redo stack
undo(H) ==
    IF Len(H.undoStack) = 0 THEN [H |-> H, ok |-> FALSE, ret |-> NULL]
    ELSE [H |-> [H EXCEPT !.undoStack = Front(@),
                          !.redoStack = Append(@, Last(H.undoStack))],
          ok |-> TRUE, ret |-> Last(H.undoStack)]

\* redo that leaves the action on the redo stack as well
redo_copy(H) ==
    IF Len(H.redoStack) = 0 THEN [H |-> H, ok |-> FALSE, ret |-> NULL]
    ELSE [H |-> [H EXCEPT !.undoStack = Append(@, Last(H.redoStack))],
          ok |-> TRUE, ret |-> Last(H.redoStack)]

\* redo: null on an empty redo stack, else pop it onto the undo stack
redo(H) ==
    IF Len(H.redoStack) = 0 THEN [H |-> H, ok |-> FALSE, ret |-> NULL]
    ELSE [H |-> [H EXCEPT !.redoStack = Front(@),
                          !.undoStack = Append(@, Last(H.redoStack))],
          ok |-> TRUE, ret |-> Last(H.redoStack)]

canUndo(H) == Len(H.undoStack) > 0
canRedo(H) == Len(H.redoStack) > 0

\* peekUndo that reads the bottom of the stack
peekUndo_bottom(H) ==
    IF Len(H.undoStack) > 0 THEN [ok |-> TRUE, ret |-> H.undoStack[1]]
    ELSE [ok |-> FALSE, ret |-> NULL]

\* peekUndo / peekRedo: the top of the stack, ok FALSE for null
peekUndo(H) ==
    IF Len(H.undoStack) > 0 THEN [ok |-> TRUE, ret |-> Last(H.undoStack)]
    ELSE [ok |-> FALSE, ret |-> NULL]
peekRedo(H) ==
    IF Len(H.redoStack) > 0 THEN [ok |-> TRUE, ret |-> Last(H.redoStack)]
    ELSE [ok |-> FALSE, ret |-> NULL]

\* a new ActionHistory
newHistory == [undoStack |-> << >>, redoStack |-> << >>, actionIdCounter |-> 0]

\* clear that leaves the counter alone
clearHistory_keepCounter(H) ==
    [undoStack |-> << >>, redoStack |-> << >>, actionIdCounter |-> H.actionIdCounter]

\* ActionHistory.clear
clearHistory(H) == [undoStack |-> << >>, redoStack |-> << >>, actionIdCounter |-> 0]

----------------------------------------------------------------------------
\* lastCall: the method called, whether it succeeded, the id of the voxel it
\* returned or acted on (-1 when it failed or has none) and, for a successful
\* extrusion, the voxel and face it was called with
CalledAt(op, ok, id, voxelId, faceId) ==
    lastCall' = [op |-> op, ok |-> ok, id |-> IF ok THEN id ELSE -1,
                 voxelId |-> IF ok THEN voxelId ELSE -1,
                 faceId |-> IF ok THEN faceId ELSE ""]

Called(op, ok, id) == CalledAt(op, ok, id, -1, "")

\* the current color of a face: the color map, else the color cached on the face
currentColor(S, voxelId, faceId) ==
    IF <<voxelId, faceId>> \in DOMAIN S.colorMap
    THEN S.colorMap[<<voxelId, faceId>>]
    ELSE S.faceColor[S.voxels[voxelId].obj][faceId]

\* what an observer of the store sees: the live voxel ids, their positions and
\* the current color of each of their faces
View(S) ==
    [id \in DOMAIN S.voxels |->
        [position |-> S.voxels[id].position,
         colors |-> [f \in faceIdsOf(S.voxels[id].faces) |-> currentColor(S, id, f)]]]

NoView == [seen |-> FALSE, view |-> << >>]

\* no file written yet; no call returned yet
NoFile == [written |-> FALSE, parses |-> FALSE]
NoReturn == [op |-> "none"]
Seen(S) == [seen |-> TRUE, view |-> View(S)]

Init ==
    /\ voxels = << >>
    /\ colorMap = << >>
    /\ vertexIdCounter = 0
    /\ voxelIdCounter = 0
    /\ gridBounds = Unbounded
    /\ faceColor = << >>
    /\ nextObj = 0
    /\ snapshots = {}
    /\ paints = 0
    /\ deletedIds = {}
    /\ lastCall = [op |-> "new", ok |-> TRUE, id |-> -1, voxelId |-> -1, faceId |-> ""]
    /\ undone = NoView
    /\ undoStack = << >>
    /\ redoStack = << >>
    /\ actionIdCounter = 0
    /\ content = NoFile
    /\ returned = NoReturn
    /\ restoredIds = {}

----------------------------------------------------------------------------
(* The store driven through its public methods *)

\* voxelMesh.setGridBounds(0, MaxCoord + 1, 0, MaxCoord + 1, 0, MaxCoord + 1)
CallSetGridBounds ==
    /\ gridBounds = Unbounded
    /\ SetStore(setGridBounds(Store, Fin(0), Fin(MaxCoord + 1), Fin(0), Fin(MaxCoord + 1),
                              Fin(0), Fin(MaxCoord + 1)))
    /\ Called("setGridBounds", TRUE, -1)
    /\ UNCHANGED <<snapshots, paints, deletedIds, historyVars, undone, fileVars>>

CallAddVoxel(position) ==
    /\ nextObj < MaxObjs
    /\ LET r == addVoxel(Store, position)
       IN  /\ SetStore(r.S)
           /\ Called("addVoxel", r.ok, IF r.ok THEN r.ret.id ELSE -1)
    /\ UNCHANGED <<snapshots, paints, deletedIds, historyVars, undone, fileVars>>

CallAddVoxelAtFaceId(voxelId, faceId) ==
    /\ nextObj < MaxObjs
    /\ LET r == addVoxelAtFaceId(Store, voxelId, faceId)
       IN  /\ SetStore(r.S)
           /\ CalledAt("addVoxelAtFaceId", r.ok, IF r.ok THEN r.ret.id ELSE -1, voxelId, faceId)
    /\ UNCHANGED <<snapshots, paints, deletedIds, historyVars, undone, fileVars>>

\* the caller keeps the snapshot (at most MaxSnapshots of them)
CallDeleteVoxel(voxelId) ==
    /\ LET r == deleteVoxel(Store, voxelId)
       IN  /\ SetStore(r.S)
           /\ Called("deleteVoxel", r.ok, voxelId)
           /\ IF r.ok
              THEN /\ Cardinality(snapshots \cup {[voxelId |-> voxelId, snapshot |-> r.ret]})
                         <= MaxSnapshots
                   /\ snapshots' = snapshots \cup {[voxelId |-> voxelId, snapshot |-> r.ret]}
              ELSE UNCHANGED snapshots
           /\ deletedIds' = IF r.ok THEN deletedIds \cup {voxelId} ELSE deletedIds
    /\ UNCHANGED <<paints, historyVars, undone, fileVars>>

CallRestoreVoxel(voxelId, snapshot) ==
    /\ LET r == restoreVoxel(Store, voxelId, snapshot)
       IN  /\ SetStore(r.S)
           /\ Called("restoreVoxel", r.ok, voxelId)
    /\ UNCHANGED <<snapshots, paints, deletedIds, historyVars, undone, fileVars>>

CallColorSpecificFace(voxelId, faceId, color) ==
    /\ paints < MaxPaints
    /\ LET r == colorSpecificFace(Store, voxelId, faceId, color)
       IN  /\ SetStore(r.S)
           /\ Called("colorSpecificFace", r.ok, voxelId)
           /\ paints' = IF r.ok THEN paints + 1 ELSE paints
    /\ UNCHANGED <<snapshots, deletedIds, historyVars, undone, fileVars>>

CallClear ==
    /\ SetStore(clear(Store))
    /\ Called("clear", TRUE, -1)
    /\ deletedIds' = {}
    /\ UNCHANGED <<snapshots, paints, historyVars, undone, fileVars>>

\* the voxel ids and face ids a caller passes: those in use, and one of each that is not
VoxelIdArgs == 0..MaxObjs
FaceIdArgs == FaceIds \cup {"face_6"}
\* the faces a caller paints: two of the six, and one that does not exist
PaintFaceArgs == {"face_0", "face_5", "face_6"}

\* the ranges setGridBounds is called with: x from 0 or -1 up to 1, y from 0 to
\* 1, and z not passed, from -1 to 1 or from 0 to 1
GridArgs ==
    {[minX |-> Fin(minX), maxX |-> Fin(1), minY |-> Fin(0), maxY |-> Fin(1),
      minZ |-> z[1], maxZ |-> z[2]] :
        minX \in {-1, 0},
        z \in {<<undefined, undefined>>, <<Fin(-1), Fin(1)>>, <<Fin(0), Fin(1)>>}}

\* the positions around the ranges
GridPositions == [x : -1..1, y : {0}, z : -1..1]

\* setGridBounds with these arguments; the caller keeps them
CallSetGridBoundsTo(args) ==
    /\ SetStore(setGridBounds(Store, args.minX, args.maxX, args.minY, args.maxY,
                              args.minZ, args.maxZ))
    /\ Called("setGridBounds", TRUE, -1)
    /\ returned' = [op |-> "setGridBounds", args |-> args]
    /\ UNCHANGED <<snapshots, paints, deletedIds, historyVars, undone, content, restoredIds>>

\* a store whose bounds are set at any time and to which voxels are added
BoundsNext ==
    \/ \E args \in GridArgs : CallSetGridBoundsTo(args)
    \/ \E position \in GridPositions : CallAddVoxel(position)

SpecBounds == Init /\ [][BoundsNext]_vars

StoreNext ==
    \/ CallSetGridBounds
    \/ \E position \in Positions : CallAddVoxel(position)
    \/ \E voxelId \in VoxelIdArgs, faceId \in FaceIdArgs : CallAddVoxelAtFaceId(voxelId, faceId)
    \/ \E voxelId \in VoxelIdArgs : CallDeleteVoxel(voxelId)
    \/ \E s \in snapshots : CallRestoreVoxel(s.voxelId, s.snapshot)
    \/ \E voxelId \in VoxelIdArgs, faceId \in PaintFaceArgs, color \in PaintColors :
            CallColorSpecificFace(voxelId, faceId, color)
    \/ CallClear

SpecStore == Init /\ [][StoreNext]_vars

----------------------------------------------------------------------------
(* The history driven through its public methods *)

storeSide == <<storeVars, heapVars, snapshots, paints, deletedIds, undone, fileVars>>

ActionTypes == {"addVoxel", "deleteVoxel", "colorFace"}

CallPushAction(type, voxelId) ==
    /\ actionIdCounter < MaxActions
    /\ SetHistory(pushAction(History, type, [voxelId |-> voxelId], "description", "main"))
    /\ Called("pushAction", TRUE, actionIdCounter)
    /\ UNCHANGED storeSide

CallUndo ==
    /\ LET r == undo(History)
       IN  /\ SetHistory(r.H)
           /\ Called("undo", r.ok, IF r.ok THEN r.ret.id ELSE -1)
    /\ UNCHANGED storeSide

CallRedo ==
    /\ LET r == redo(History)
       IN  /\ SetHistory(r.H)
           /\ Called("redo", r.ok, IF r.ok THEN r.ret.id ELSE -1)
    /\ UNCHANGED storeSide

CallClearHistory ==
    /\ SetHistory(clearHistory(History))
    /\ Called("clearHistory", TRUE, -1)
    /\ restoredIds' = {}
    /\ UNCHANGED <<storeVars, heapVars, snapshots, paints, deletedIds, undone, content, returned>>

HistoryNext ==
    \/ \E type \in ActionTypes, voxelId \in {0, 1} : CallPushAction(type, voxelId)
    \/ CallUndo
    \/ CallRedo
    \/ CallClearHistory

SpecHistory == Init /\ [][HistoryNext]_vars

\* the queries of the history: the caller keeps what they return
querySide == <<storeVars, heapVars, snapshots, paints, deletedIds, undone, content,
               restoredIds, historyVars>>

CallPeekUndo ==
    /\ returned' = [op |-> "peekUndo"] @@ peekUndo(History)
    /\ Called("peekUndo", peekUndo(History).ok, -1)
    /\ UNCHANGED querySide

CallPeekRedo ==
    /\ returned' = [op |-> "peekRedo"] @@ peekRedo(History)
    /\ Called("peekRedo", peekRedo(History).ok, -1)
    /\ UNCHANGED querySide

CallCanUndo ==
    /\ returned' = [op |-> "canUndo", ok |-> canUndo(History)]
    /\ Called("canUndo", canUndo(History), -1)
    /\ UNCHANGED querySide

CallCanRedo ==
    /\ returned' = [op |-> "canRedo", ok |-> canRedo(History)]
    /\ Called("canRedo", canRedo(History), -1)
    /\ UNCHANGED querySide

\* the history driven through its methods, the queries among them
QueryNext ==
    \/ \E type \in ActionTypes : CallPushAction(type, 0)
    \/ CallUndo
    \/ CallRedo
    \/ CallPeekUndo
    \/ CallPeekRedo
    \/ CallCanUndo
    \/ CallCanRedo

SpecQuery == Init /\ [][QueryNext]_vars

\* one more action, while the counter is at most CapExtra past maxStackSize
CapPush ==
    /\ actionIdCounter < maxStackSize + CapExtra
    /\ SetHistory(pushAction(History, "colorFace", [voxelId |-> 0], "description", "main"))
    /\ Called("pushAction", TRUE, actionIdCounter)
    /\ UNCHANGED storeSide

SpecCap == Init /\ [][CapPush]_vars

----------------------------------------------------------------------------
(* The editor: BoxelEditor with the toolbar that records and replays edits *)

\* the gridSize the editor is mounted with
gridSize == [x |-> 1, y |-> 1, z |-> 1]

\* the positions of the initial cuboid, in the order of the three nested loops
initialPositions ==
    [n \in 1..(gridSize.x * gridSize.y * gridSize.z) |->
        [x |-> ((n - 1) \div (gridSize.y * gridSize.z)) - (gridSize.x \div 2),
         y |-> ((n - 1) \div gridSize.z) % gridSize.y,
         z |-> ((n - 1) % gridSize.z) - (gridSize.z \div 2)]]

RECURSIVE addVoxels(_, _)
\* voxelMesh.addVoxel for each position in turn
addVoxels(S, positions) ==
    IF positions = << >> THEN S
    ELSE addVoxels(addVoxel(S, Head(positions)).S, Tail(positions))

EmptyStore ==
    [voxels |-> << >>, colorMap |-> << >>, vertexIdCounter |-> 0, voxelIdCounter |-> 0,
     gridBounds |-> Unbounded, faceColor |-> << >>, nextObj |-> 0]

\* the store once the editor is mounted: new VoxelMesh, then the initial cuboid
initialStore == addVoxels(EmptyStore, initialPositions)

EditorInit ==
    /\ voxels = initialStore.voxels
    /\ colorMap = initialStore.colorMap
    /\ vertexIdCounter = initialStore.vertexIdCounter
    /\ voxelIdCounter = initialStore.voxelIdCounter
    /\ gridBounds = initialStore.gridBounds
    /\ faceColor = initialStore.faceColor
    /\ nextObj = initialStore.nextObj
    /\ snapshots = {}
    /\ paints = 0
    /\ deletedIds = {}
    /\ lastCall = [op |-> "new", ok |-> TRUE, id |-> -1, voxelId |-> -1, faceId |-> ""]
    /\ undone = NoView
    /\ undoStack = << >>
    /\ redoStack = << >>
    /\ actionIdCounter = 0
    /\ content = NoFile
    /\ returned = NoReturn
    /\ restoredIds = {}

\* applyActionReverse that recolors to newColor
applyActionReverse_newColor(S, action) ==
    CASE action.type = "addVoxel" -> deleteVoxel(S, action.data.voxelId).S
      [] action.type = "deleteVoxel" ->
            restoreVoxel(S, action.data.voxelId, action.data.voxelData).S
      [] action.type = "colorFace" ->
            colorSpecificFace(S, action.data.voxelId, action.data.faceId,
                              action.data.newColor).S
      [] OTHER -> S

\* applyAction that does nothing
applyAction_skip(S, action) == S

\* applyAction: the forward effect of an action on the store
applyAction(S, action) ==
    CASE action.type = "addVoxel" ->
            IF "voxelData" \in DOMAIN action.data
            THEN restoreVoxel(S, action.data.voxelId, action.data.voxelData).S
            ELSE S
      [] action.type = "deleteVoxel" -> deleteVoxel(S, action.data.voxelId).S
      [] action.type = "colorFace" ->
            colorSpecificFace(S, action.data.voxelId, action.data.faceId,
                              action.data.newColor).S
      [] OTHER -> S

\* applyActionReverse: the inverse effect of an action on the store
applyActionReverse(S, action) ==
    CASE action.type = "addVoxel" -> deleteVoxel(S, action.data.voxelId).S
      [] action.type = "deleteVoxel" ->
            IF "voxelData" \in DOMAIN action.data
            THEN restoreVoxel(S, action.data.voxelId, action.data.voxelData).S
            ELSE S
      [] action.type = "colorFace" ->
            colorSpecificFace(S, action.data.voxelId, action.data.faceId,
                              action.data.previousColor).S
      [] OTHER -> S

editorSide == <<snapshots, paints, deletedIds, fileVars>>

\* selectedFaceId || voxel.faces[0].id
targetFaceId(voxel, selectedFaceId) ==
    IF selectedFaceId = NULL THEN voxel.faces[1].id ELSE selectedFaceId

\* handleAddVoxel: extrude from the selected face and record the edit, the new
\* voxel itself as voxelData
handleAddVoxel(selectedVoxelId, selectedFaceId) ==
    /\ nextObj < MaxEditorObjs
    /\ actionIdCounter < MaxEditorActions
    /\ selectedVoxelId \in DOMAIN voxels
    /\ Len(voxels[selectedVoxelId].faces) > 0
    /\ LET voxel == voxels[selectedVoxelId]
           k == findFace(voxel.faces, targetFaceId(voxel, selectedFaceId))
       IN  /\ k # 0
           /\ LET r == addVoxelAtFaceId(Store, selectedVoxelId, voxel.faces[k].id)
              IN  /\ r.ok
                  /\ SetStore(r.S)
                  /\ SetHistory(pushAction(History, "addVoxel",
                        [voxelId |-> r.ret.id, position |-> r.ret.position,
                         adjacentDirection |-> voxel.faces[k].normal,
                         voxelData |-> r.ret],
                        "description", "main"))
                  /\ CalledAt("handleAddVoxel", TRUE, r.ret.id, selectedVoxelId,
                              voxel.faces[k].id)
    /\ undone' = NoView
    /\ UNCHANGED editorSide

\* handleDeleteVoxel: delete the selected voxel and record the edit with its snapshot
handleDeleteVoxel(selectedVoxelId) ==
    /\ actionIdCounter < MaxEditorActions
    /\ LET r == deleteVoxel(Store, selectedVoxelId)
       IN  /\ r.ok
           /\ SetStore(r.S)
           /\ SetHistory(pushAction(History, "deleteVoxel",
                 [voxelId |-> selectedVoxelId, position |-> r.ret.position,
                  voxelData |-> r.ret],
                 "description", "main"))
           /\ Called("handleDeleteVoxel", TRUE, selectedVoxelId)
    /\ undone' = NoView
    /\ UNCHANGED editorSide

\* targetFace.color || '#808080'
previousColorOf(color) == IF color = "" THEN DEFAULT_COLOR ELSE color

\* handlePaintFace: color the selected face (the first one when none is selected)
\* and record the edit with the color cached on the face before
handlePaintFace(voxelId, faceId, selectedColor) ==
    /\ actionIdCounter < MaxEditorActions
    /\ voxelId \in DOMAIN voxels
    /\ LET voxel == voxels[voxelId]
           k == IF faceId # NULL THEN findFace(voxel.faces, faceId) ELSE 1
       IN  /\ k # 0
           /\ LET previousColor == previousColorOf(faceColor[voxel.obj][voxel.faces[k].id])
                  r == colorSpecificFace(Store, voxelId, voxel.faces[k].id, selectedColor)
              IN  /\ SetStore(r.S)
                  /\ SetHistory(pushAction(History, "colorFace",
                        [faceId |-> voxel.faces[k].id, voxelId |-> voxelId,
                         previousColor |-> previousColor, newColor |-> selectedColor],
                        "description", "main"))
                  /\ CalledAt("handlePaintFace", TRUE, voxelId, voxelId, voxel.faces[k].id)
    /\ undone' = NoView
    /\ UNCHANGED editorSide

\* the undo button: peekUndo, applyActionReverse, undo
undoButton ==
    /\ peekUndo(History).ok
    /\ SetStore(applyActionReverse(Store, peekUndo(History).ret))
    /\ SetHistory(undo(History).H)
    /\ Called("undoButton", TRUE, peekUndo(History).ret.id)
    /\ undone' = Seen(Store)
    /\ UNCHANGED editorSide

\* the redo button: redo, applyAction
redoButton ==
    /\ redo(History).ok
    /\ SetHistory(redo(History).H)
    /\ SetStore(applyAction(Store, redo(History).ret))
    /\ Called("redoButton", TRUE, redo(History).ret.id)
    /\ undone' = NoView
    /\ UNCHANGED editorSide

\* the face a handler finds selected: one of the faces, or none
SelectedFaceIds == FaceIds \cup {NULL}
\* the faces the user paints
PaintedFaceIds == {"face_0", "face_5", NULL}

EditorNext ==
    \/ \E v \in DOMAIN voxels, f \in SelectedFaceIds : handleAddVoxel(v, f)
    \/ \E v \in DOMAIN voxels : handleDeleteVoxel(v)
    \/ \E v \in DOMAIN voxels, f \in PaintedFaceIds, c \in PaintColors : handlePaintFace(v, f, c)
    \/ undoButton
    \/ redoButton

SpecEditor == EditorInit /\ [][EditorNext]_vars

----------------------------------------------------------------------------
(* The editor: BoxelEditor with the keyboard shortcuts of handleKeyDown *)

\* Shift+N: extrude from the selected face and record the edit (no voxelData)
keyAdd(selectedVoxelId, selectedFaceId) ==
    /\ nextObj < MaxEditorObjs
    /\ actionIdCounter < MaxEditorActions
    /\ selectedVoxelId \in DOMAIN voxels
    /\ Len(voxels[selectedVoxelId].faces) > 0
    /\ LET voxel == voxels[selectedVoxelId]
           k == findFace(voxel.faces, targetFaceId(voxel, selectedFaceId))
       IN  /\ k # 0
           /\ LET r == addVoxelAtFaceId(Store, selectedVoxelId, voxel.faces[k].id)
              IN  /\ r.ok
                  /\ SetStore(r.S)
                  /\ SetHistory(pushAction(History, "addVoxel",
                        [voxelId |-> r.ret.id, position |-> r.ret.position,
                         adjacentDirection |-> voxel.faces[k].normal],
                        "description", "main"))
                  /\ CalledAt("keyAdd", TRUE, r.ret.id, selectedVoxelId, voxel.faces[k].id)
    /\ undone' = NoView
    /\ UNCHANGED editorSide

\* Alt+Backspace: delete the selected voxel and record the edit with its snapshot
keyDelete(selectedVoxelId) ==
    /\ actionIdCounter < MaxEditorActions
    /\ LET r == deleteVoxel(Store, selectedVoxelId)
       IN  /\ r.ok
           /\ SetStore(r.S)
           /\ SetHistory(pushAction(History, "deleteVoxel",
                 [voxelId |-> selectedVoxelId, position |-> r.ret.position,
                  voxelData |-> r.ret],
                 "description", "main"))
           /\ Called("keyDelete", TRUE, selectedVoxelId)
    /\ undone' = NoView
    /\ UNCHANGED editorSide

\* Alt+C: color the selected face and record the edit
keyPaint(selectedVoxelId, selectedFaceId, selectedColor) ==
    /\ actionIdCounter < MaxEditorActions
    /\ selectedVoxelId \in DOMAIN voxels
    /\ LET voxel == voxels[selectedVoxelId]
           k == IF selectedFaceId # NULL THEN findFace(voxel.faces, selectedFaceId) ELSE 1
       IN  /\ k # 0
           /\ LET previousColor == previousColorOf(faceColor[voxel.obj][voxel.faces[k].id])
                  r == colorSpecificFace(Store, selectedVoxelId, voxel.faces[k].id,
                                         selectedColor)
              IN  /\ SetStore(r.S)
                  /\ SetHistory(pushAction(History, "colorFace",
                        [faceId |-> voxel.faces[k].id, voxelId |-> selectedVoxelId,
                         previousColor |-> previousColor, newColor |-> selectedColor],
                        "description", "main"))
                  /\ CalledAt("keyPaint", TRUE, selectedVoxelId, selectedVoxelId,
                              voxel.faces[k].id)
    /\ undone' = NoView
    /\ UNCHANGED editorSide

\* Ctrl+Z: peekUndo, applyActionReverse, undo
keyUndo ==
    /\ peekUndo(History).ok
    /\ SetStore(applyActionReverse(Store, peekUndo(History).ret))
    /\ SetHistory(undo(History).H)
    /\ Called("keyUndo", TRUE, peekUndo(History).ret.id)
    /\ undone' = Seen(Store)
    /\ UNCHANGED editorSide

\* Ctrl+Shift+Z: redo, then applyActionReverse on the action redo returned
keyRedo ==
    /\ redo(History).ok
    /\ SetHistory(redo(History).H)
    /\ SetStore(applyActionReverse(Store, redo(History).ret))
    /\ Called("keyRedo", TRUE, redo(History).ret.id)
    /\ undone' = NoView
    /\ UNCHANGED editorSide

KeyEditorNext ==
    \/ \E v \in DOMAIN voxels, f \in SelectedFaceIds : keyAdd(v, f)
    \/ \E v \in DOMAIN voxels : keyDelete(v)
    \/ \E v \in DOMAIN voxels, f \in PaintedFaceIds, c \in PaintColors : keyPaint(v, f, c)
    \/ keyUndo
    \/ keyRedo

SpecKeyEditor == EditorInit /\ [][KeyEditorNext]_vars

----------------------------------------------------------------------------
(* Interchange export (FileManager.createGltfStructure) and display mesh   *)
(* (VoxelMesh.toThreeMesh)                                                 *)

\* vectors are records x, y, z
Vec(x, y, z) == [x |-> x, y |-> y, z |-> z]
sub(a, b) == Vec(a.x - b.x, a.y - b.y, a.z - b.z)
cross(a, b) == Vec(a.y * b.z - a.z * b.y, a.z * b.x - a.x * b.z, a.x * b.y - a.y * b.x)

\* hasAdjacentVoxel with the checked position on the opposite side
hasAdjacentVoxel_opposite(vs, pos, normal) ==
    IF normal \notin {"x+", "x-", "y+", "y-", "z+", "z-"} THEN FALSE
    ELSE LET checkPos ==
                CASE normal = "x+" -> Vec(pos.x - 1, pos.y, pos.z)
                  [] normal = "x-" -> Vec(pos.x + 1, pos.y, pos.z)
                  [] normal = "y+" -> Vec(pos.x, pos.y - 1, pos.z)
                  [] normal = "y-" -> Vec(pos.x, pos.y + 1, pos.z)
                  [] normal = "z+" -> Vec(pos.x, pos.y, pos.z - 1)
                  [] normal = "z-" -> Vec(pos.x, pos.y, pos.z + 1)
         IN  \E id \in DOMAIN vs :
                /\ vs[id].position.x = checkPos.x
                /\ vs[id].position.y = checkPos.y
                /\ vs[id].position.z = checkPos.z

\* hasAdjacentVoxel: is there a voxel at the position next to pos across the
\* face with this normal
hasAdjacentVoxel(vs, pos, normal) ==
    IF normal \notin {"x+", "x-", "y+", "y-", "z+", "z-"} THEN FALSE
    ELSE LET checkPos ==
                CASE normal = "x+" -> Vec(pos.x + 1, pos.y, pos.z)
                  [] normal = "x-" -> Vec(pos.x - 1, pos.y, pos.z)
                  [] normal = "y+" -> Vec(pos.x, pos.y + 1, pos.z)
                  [] normal = "y-" -> Vec(pos.x, pos.y - 1, pos.z)
                  [] normal = "z+" -> Vec(pos.x, pos.y, pos.z + 1)
                  [] normal = "z-" -> Vec(pos.x, pos.y, pos.z - 1)
         IN  \E id \in DOMAIN vs :
                /\ vs[id].position.x = checkPos.x
                /\ vs[id].position.y = checkPos.y
                /\ vs[id].position.z = checkPos.z

normalToVec3(normal) ==
    CASE normal = "x+" -> Vec(1, 0, 0)
      [] normal = "x-" -> Vec(-1, 0, 0)
      [] normal = "y+" -> Vec(0, 1, 0)
      [] normal = "y-" -> Vec(0, -1, 0)
      [] normal = "z+" -> Vec(0, 0, 1)
      [] normal = "z-" -> Vec(0, 0, -1)
      [] OTHER -> Vec(0, 1, 0)

\* voxel.vertices.find((v) => v.id === vertexId): the index of the vertex, 0 if none
findVertex(vertices, vertexId) ==
    IF \E i \in DOMAIN vertices : vertices[i].id = vertexId
    THEN CHOOSE i \in DOMAIN vertices :
            /\ vertices[i].id = vertexId
            /\ \A j \in DOMAIN vertices : vertices[j].id = vertexId => i <= j
    ELSE 0

\* the export's faceVertices: the positions of the face's vertices that are
\* found among the voxel's, in the order of face.vertexIds
faceVertices(voxel, face) ==
    LET present == SelectSeq(face.vertexIds,
                             LAMBDA vertexId : findVertex(voxel.vertices, vertexId) # 0)
    IN  [k \in 1..Len(present) |->
            LET vertex == voxel.vertices[findVertex(voxel.vertices, present[k])]
            IN  Vec(vertex.x, vertex.y, vertex.z)]

\* the triangles of a quad without the swap for positive normals
triangleIndices_noSwap(normal, n) ==
    (IF n >= 3 THEN << <<0, 1, 2>> >> ELSE << >>)
    \o (IF n >= 4 THEN << <<0, 2, 3>> >> ELSE << >>)

\* the index triples pushed for a face of n vertices, relative to startIndex
triangleIndices(normal, n) ==
    LET isNegativeNormal == normal \in {"x-", "y-", "z-"}
    IN  (IF n >= 3
         THEN IF isNegativeNormal THEN << <<0, 1, 2>> >> ELSE << <<0, 2, 1>> >>
         ELSE << >>)
        \o (IF n >= 4
            THEN IF isNegativeNormal THEN << <<0, 2, 3>> >> ELSE << <<0, 3, 2>> >>
            ELSE << >>)

\* colorMap.get(colorKey) || face.color || defaultColor
exportColor(S, voxel, faceId) ==
    IF <<voxel.id, faceId>> \in DOMAIN S.colorMap /\ S.colorMap[<<voxel.id, faceId>>] # ""
    THEN S.colorMap[<<voxel.id, faceId>>]
    ELSE IF S.faceColor[voxel.obj][faceId] # "" THEN S.faceColor[voxel.obj][faceId]
    ELSE "#CCCCCC"

\* one face as createGltfStructure writes it to the buffers: its color, its
\* normal vector, its vertex positions and its triangles, each index replaced
\* by the position it points at
exportedFace(S, voxel, face) ==
    LET fv == faceVertices(voxel, face)
        tris == triangleIndices(face.normal, Len(fv))
    IN  [voxelId |-> voxel.id, faceId |-> face.id, tag |-> face.normal,
         color |-> exportColor(S, voxel, face.id),
         normal |-> normalToVec3(face.normal),
         positions |-> fv,
         triangles |-> [t \in DOMAIN tris |-> [i \in 1..3 |-> fv[tris[t][i] + 1]]]]

\* createGltfStructure: the faces written to the buffers (none of an empty
\* store); a face with a voxel next to it or with fewer than 3 vertices found is
\* skipped; the order of the faces in the buffers is not modelled
createGltfStructure(S) ==
    UNION {{exportedFace(S, S.voxels[id], S.voxels[id].faces[k]) :
               k \in {j \in DOMAIN S.voxels[id].faces :
                         /\ ~hasAdjacentVoxel(S.voxels, S.voxels[id].position,
                                              S.voxels[id].faces[j].normal)
                         /\ Len(faceVertices(S.voxels[id], S.voxels[id].faces[j])) >= 3}} :
           id \in DOMAIN S.voxels}

\* Vector3.normalize for the vectors that arise here: the zero vector stays,
\* a vector along one axis becomes the unit vector of its sign
normalize(v) ==
    LET sign(n) == IF n > 0 THEN 1 ELSE IF n < 0 THEN -1 ELSE 0
    IN  IF Cardinality({c \in {"x", "y", "z"} : v[c] # 0}) <= 1
        THEN Vec(sign(v.x), sign(v.y), sign(v.z))
        ELSE v

\* toThreeMesh's faceVertices: a Vector3 per vertex id, the origin for one not found
meshVertices(voxel, face) ==
    [k \in DOMAIN face.vertexIds |->
        IF findVertex(voxel.vertices, face.vertexIds[k]) = 0 THEN Vec(0, 0, 0)
        ELSE LET vertex == voxel.vertices[findVertex(voxel.vertices, face.vertexIds[k])]
             IN  Vec(vertex.x, vertex.y, vertex.z)]

\* toThreeMesh that skips a face with a voxel next to it, as the export does
toThreeMesh_culled(S) ==
    UNION {{LET voxel == S.voxels[id]
                face == voxel.faces[k]
                fv == meshVertices(voxel, face)
            IN  [voxelId |-> voxel.id, faceId |-> face.id, tag |-> face.normal,
                 positions |-> fv,
                 normal |-> normalize(cross(sub(fv[2], fv[1]), sub(fv[3], fv[1]))),
                 indices |-> <<0, 1, 2, 0, 2, 3>>,
                 color |-> IF S.faceColor[voxel.obj][face.id] # ""
                           THEN S.faceColor[voxel.obj][face.id] ELSE "#808080"] :
               k \in {j \in DOMAIN S.voxels[id].faces :
                         /\ Len(S.voxels[id].faces[j].vertexIds) >= 3
                         /\ ~hasAdjacentVoxel(S.voxels, S.voxels[id].position,
                                              S.voxels[id].faces[j].normal)}} :
           id \in DOMAIN S.voxels}

\* toThreeMesh: one mesh per face of at least 3 vertices, with the flat normal
\* (v1 - v0) x (v2 - v0), the color cached on the face and the userData
toThreeMesh(S) ==
    UNION {{LET voxel == S.voxels[id]
                face == voxel.faces[k]
                fv == meshVertices(voxel, face)
            IN  [voxelId |-> voxel.id, faceId |-> face.id, tag |-> face.normal,
                 positions |-> fv,
                 normal |-> normalize(cross(sub(fv[2], fv[1]), sub(fv[3], fv[1]))),
                 indices |-> <<0, 1, 2, 0, 2, 3>>,
                 color |-> IF S.faceColor[voxel.obj][face.id] # ""
                           THEN S.faceColor[voxel.obj][face.id] ELSE "#808080"] :
               k \in {j \in DOMAIN S.voxels[id].faces :
                         Len(S.voxels[id].faces[j].vertexIds) >= 3}} :
           id \in DOMAIN S.voxels}

\* FileManager.createGltfData(voxels, colorMap) on the store's voxels and color map
CallCreateGltfData ==
    /\ returned' = [op |-> "createGltfData", faces |-> createGltfStructure(Store)]
    /\ lastCall' = [op |-> "createGltfData", ok |-> TRUE, id |-> -1, voxelId |-> -1,
                    faceId |-> ""]
    /\ UNCHANGED <<storeVars, heapVars, snapshots, paints, deletedIds, historyVars,
                   undone, content, restoredIds>>

CallToThreeMesh ==
    /\ returned' = [op |-> "toThreeMesh", meshes |-> toThreeMesh(Store)]
    /\ lastCall' = [op |-> "toThreeMesh", ok |-> TRUE, id |-> -1, voxelId |-> -1,
                    faceId |-> ""]
    /\ UNCHANGED <<storeVars, heapVars, snapshots, paints, deletedIds, historyVars,
                   undone, content, restoredIds>>

\* voxels are added and painted, and the store is exported or displayed
ExportNext ==
    \/ \E position \in Positions : CallAddVoxel(position)
    \/ \E voxelId \in VoxelIdArgs, faceId \in FaceIdArgs : CallAddVoxelAtFaceId(voxelId, faceId)
    \/ \E voxelId \in VoxelIdArgs, faceId \in PaintFaceArgs, color \in PaintColors :
            CallColorSpecificFace(voxelId, faceId, color)
    \/ CallCreateGltfData
    \/ CallToThreeMesh

SpecExport == Init /\ [][ExportNext]_vars

----------------------------------------------------------------------------
(* Project files: FileManager.createGlwFromProject, JSON text,             *)
(* FileManager.restoreProjectFromGlw, ActionHistory.restoreAction          *)
(*                                                                         *)
(* A text with '_' or '.' separators is the sequence of its parts, so that *)
(* text.split(separator) is the sequence itself: `voxel_0_face_5` is       *)
(* <<"voxel", "0", "face", "5">>.                                          *)

\* the numbers whose decimal text occurs in an id
Numerals == 0..(MaxActions + MaxObjs + MaxEditorObjs)

\* parseInt(text, 10) of a text that is a numeral or has no leading digit
parseInt(text) ==
    IF \E n \in Numerals : ToString(n) = text
    THEN [nan |-> FALSE, n |-> CHOOSE n \in Numerals : ToString(n) = text]
    ELSE [nan |-> TRUE, n |-> 0]

\* `voxel_${n}`, `face_${index}`, `action_${n}` and `${voxelId}_${faceId}`
voxelIdText(voxelId) == <<"voxel", ToString(voxelId)>>
faceIdText(faceId) ==
    <<"face", ToString(CHOOSE index \in 0..5 : faceIdOfIndex(index) = faceId)>>
actionIdText(id) == <<"action", ToString(id)>>
colorKeyText(key) == voxelIdText(key[1]) \o faceIdText(key[2])

\* the voxel id a text is, -1 for a text that is the id of no voxel
voxelIdOfText(text) ==
    IF \E n \in Numerals : voxelIdText(n) = text
    THEN CHOOSE n \in Numerals : voxelIdText(n) = text
    ELSE -1

\* the face id a text is; a text of one part that is no face id is that part
faceIdOfText(text) ==
    IF \E index \in 0..5 : <<"face", ToString(index)>> = text
    THEN faceIdOfIndex(CHOOSE index \in 0..5 : <<"face", ToString(index)>> = text)
    ELSE IF Len(text) = 1 THEN text[1] ELSE "?"

CURRENT_VERSION == <<"1", "0", "0">>

getDefaultColorPalette ==
    <<"#FF0000", "#00FF00", "#0000FF", "#FFFF00", "#00FFFF", "#FF00FF", "#FFFFFF",
      "#000000", "#808080">>

RECURSIVE ascending(_)
\* the numbers of a set in ascending order
ascending(ns) ==
    IF ns = {} THEN << >>
    ELSE LET least == CHOOSE n \in ns : \A m \in ns : n <= m
         IN  <<least>> \o ascending(ns \ {least})

\* getHistory: the undo stack followed by the redo stack
getHistory(H) == H.undoStack \o H.redoStack

\* createGlwFromProject; Array.from(voxels.values()) is taken in the order of
\* the ids, and a key of colors is the text of the color-map key
createGlwFromProject(gridSizeX, gridSizeY, gridSizeZ, S, cm, H, customPalette) ==
    [version |-> CURRENT_VERSION,
     metadata |-> [version |-> CURRENT_VERSION, createdAt |-> Timestamp,
                   updatedAt |-> Timestamp, gridSizeX |-> gridSizeX,
                   gridSizeY |-> gridSizeY, gridSizeZ |-> gridSizeZ,
                   maxGridX |-> 50, maxGridY |-> 50, maxGrid |-> 50],
     mainObject |-> [gridSizeX |-> gridSizeX, gridSizeY |-> gridSizeY,
                     gridSizeZ |-> gridSizeZ,
                     voxels |-> [i \in 1..Cardinality(DOMAIN S.voxels) |->
                                    S.voxels[ascending(DOMAIN S.voxels)[i]]],
                     colors |-> [text \in {colorKeyText(key) : key \in DOMAIN cm} |->
                                    cm[CHOOSE key \in DOMAIN cm : colorKeyText(key) = text]]],
     adjacentObjects |-> << >>,
     colorPalette |-> IF Len(customPalette) > 0 THEN customPalette
                      ELSE getDefaultColorPalette,
     undoRedoHistory |-> getHistory(H)]

\* JSON.stringify of a document, as the value JSON.parse gives back: each voxel
\* is written with the colors cached on its faces, and no object is shared
stringify(S, glwFile) ==
    [glwFile EXCEPT !.mainObject.voxels =
        [i \in DOMAIN @ |->
            [id |-> @[i].id, position |-> @[i].position, vertices |-> @[i].vertices,
             faces |-> [k \in DOMAIN @[i].faces |->
                          [id |-> @[i].faces[k].id,
                           vertexIds |-> @[i].faces[k].vertexIds,
                           normal |-> @[i].faces[k].normal,
                           color |-> S.faceColor[@[i].obj][@[i].faces[k].id]]]]]]

\* the face objects JSON.parse creates for the voxels of a text: voxel i of the
\* text gets the heap address from + i - 1
parsedFaceColors(heap, from, fileVoxels) ==
    [obj \in DOMAIN heap \cup {from + i - 1 : i \in DOMAIN fileVoxels} |->
        IF obj \in DOMAIN heap /\ ~(obj >= from /\ obj < from + Len(fileVoxels))
        THEN heap[obj]
        ELSE LET faces == fileVoxels[obj - from + 1].faces
             IN  [f \in {faces[k].id : k \in DOMAIN faces} |->
                     faces[CHOOSE k \in DOMAIN faces : faces[k].id = f].color]]

\* JSON.parse of the text of a document: the document, its voxels with fresh
\* face objects, and the heap holding them
parse(S, text) ==
    [S |-> [S EXCEPT !.faceColor = parsedFaceColors(@, S.nextObj, text.mainObject.voxels),
                     !.nextObj = @ + Len(text.mainObject.voxels)],
     glwFile |-> [text EXCEPT !.mainObject.voxels =
                    [i \in DOMAIN @ |->
                        [id |-> @[i].id, position |-> @[i].position,
                         vertices |-> @[i].vertices,
                         faces |-> [k \in DOMAIN @[i].faces |->
                                      [id |-> @[i].faces[k].id,
                                       vertexIds |-> @[i].faces[k].vertexIds,
                                       normal |-> @[i].faces[k].normal]],
                         obj |-> S.nextObj + i - 1]]]]

\* restoreAction with the counter test `idNum > this.actionIdCounter`
restoreAction_strict(H, action) ==
    LET parts == actionIdText(action.id)
        idNum == parseInt(IF Len(parts) >= 2 /\ parts[2] # "" THEN parts[2] ELSE "0")
    IN  [undoStack |-> Append(H.undoStack, action),
         redoStack |-> H.redoStack,
         actionIdCounter |-> IF ~idNum.nan /\ idNum.n > H.actionIdCounter
                             THEN idNum.n + 1 ELSE H.actionIdCounter]

\* restoreAction: push the action on the undo stack as it is; with
\* idNum = parseInt(action.id.split('_')[1] || '0', 10), the counter becomes
\* idNum + 1 if idNum >= counter (false for NaN)
restoreAction(H, action) ==
    LET parts == actionIdText(action.id)
        idNum == parseInt(IF Len(parts) >= 2 /\ parts[2] # "" THEN parts[2] ELSE "0")
    IN  [undoStack |-> Append(H.undoStack, action),
         redoStack |-> H.redoStack,
         actionIdCounter |-> IF ~idNum.nan /\ idNum.n >= H.actionIdCounter
                             THEN idNum.n + 1 ELSE H.actionIdCounter]

RECURSIVE restoreActions(_, _)
\* for (const action of actions) restoreAction(action)
restoreActions(H, actions) ==
    IF actions = << >> THEN H
    ELSE restoreActions(restoreAction(H, Head(actions)), Tail(actions))

\* restoreHistory: both stacks are emptied, then each action is restored
restoreHistory(H, actions) ==
    restoreActions([H EXCEPT !.undoStack = << >>, !.redoStack = << >>], actions)

\* a JSON text is the value it parses to, if it parses: null, a number, or an
\* object with or without the members undoStack and redoStack, each a list or not
Member(present, isArray, items) ==
    [present |-> present, isArray |-> isArray, items |-> items]

\* serialize that writes an empty redo stack
serialize_undoOnly(H) ==
    [parses |-> TRUE, type |-> "object",
     undoStack |-> Member(TRUE, TRUE, H.undoStack),
     redoStack |-> Member(TRUE, TRUE, << >>)]

\* serialize: JSON.stringify({undoStack, redoStack})
serialize(H) ==
    [parses |-> TRUE, type |-> "object",
     undoStack |-> Member(TRUE, TRUE, H.undoStack),
     redoStack |-> Member(TRUE, TRUE, H.redoStack)]

\* Array.isArray(history.undoStack) of a parsed object
isArray(member) == member.present /\ member.isArray

\* deserialize that takes the undo stack before it looks at the redo stack
deserialize_undoFirst(H, json) ==
    IF ~json.parses THEN [H |-> H, ok |-> FALSE, threw |-> FALSE]
    ELSE IF json.type = "null" THEN [H |-> H, ok |-> FALSE, threw |-> FALSE]
    ELSE IF json.type # "object" THEN [H |-> H, ok |-> FALSE, threw |-> FALSE]
    ELSE IF isArray(json.undoStack)
    THEN IF isArray(json.redoStack)
         THEN [H |-> [H EXCEPT !.undoStack = json.undoStack.items,
                               !.redoStack = json.redoStack.items],
               ok |-> TRUE, threw |-> FALSE]
         ELSE [H |-> [H EXCEPT !.undoStack = json.undoStack.items],
               ok |-> FALSE, threw |-> FALSE]
    ELSE [H |-> H, ok |-> FALSE, threw |-> FALSE]

\* deserialize: JSON.parse throwing and the TypeError of null.undoStack are
\* caught and give false; a number has no members; both stacks are taken only
\* if both are lists; the counter is left alone; nothing escapes the try
deserialize(H, json) ==
    IF ~json.parses THEN [H |-> H, ok |-> FALSE, threw |-> FALSE]
    ELSE IF json.type = "null" THEN [H |-> H, ok |-> FALSE, threw |-> FALSE]
    ELSE IF json.type # "object" THEN [H |-> H, ok |-> FALSE, threw |-> FALSE]
    ELSE IF isArray(json.undoStack) /\ isArray(json.redoStack)
    THEN [H |-> [H EXCEPT !.undoStack = json.undoStack.items,
                          !.redoStack = json.redoStack.items],
          ok |-> TRUE, threw |-> FALSE]
    ELSE [H |-> H, ok |-> FALSE, threw |-> FALSE]

RECURSIVE restoreVoxels(_, _)
\* for (const voxel of voxels) restoreVoxel(voxel.id, {position, vertices, faces, colors: {}})
restoreVoxels(S, fileVoxels) ==
    IF fileVoxels = << >> THEN S
    ELSE LET voxel == Head(fileVoxels)
             snapshot == [position |-> voxel.position, vertices |-> voxel.vertices,
                          faces |-> voxel.faces, obj |-> voxel.obj, colors |-> << >>]
         IN  restoreVoxels(restoreVoxel(S, voxel.id, snapshot).S, Tail(fileVoxels))

RECURSIVE restoreColors(_, _, _)
\* for (const key of Object.keys(colorMap)): [voxelId, faceId] = key.split('_'),
\* the first two parts of the key; if both are non-empty,
\* colorSpecificFace(voxelId, faceId, colorMap[key]).  The keys are taken in
\* some order
restoreColors(S, colors, keys) ==
    IF keys = {} THEN S
    ELSE LET key == CHOOSE k \in keys : TRUE
             parts == key
             voxelId == IF Len(parts) >= 1 THEN parts[1] ELSE ""
             faceId == IF Len(parts) >= 2 THEN parts[2] ELSE ""
         IN  restoreColors(
                IF voxelId # "" /\ faceId # ""
                THEN colorSpecificFace(S, voxelIdOfText(<<voxelId>>),
                                       faceIdOfText(<<faceId>>), colors[key]).S
                ELSE S,
                colors, keys \ {key})

\* restoreProjectFromGlw of a parsed document into a store and a history
restoreProjectFromGlw(glwFile, S, H) ==
    LET restored == restoreVoxels(S, glwFile.mainObject.voxels)
        colored == restoreColors(restored, glwFile.mainObject.colors,
                                 DOMAIN glwFile.mainObject.colors)
    IN  [S |-> colored,
         H |-> restoreActions(H, glwFile.undoRedoHistory),
         ok |-> TRUE,
         ret |-> [gridSize |-> [x |-> glwFile.metadata.gridSizeX,
                                y |-> glwFile.metadata.gridSizeY,
                                z |-> IF glwFile.metadata.gridSizeZ # 0
                                      THEN glwFile.metadata.gridSizeZ
                                      ELSE glwFile.metadata.gridSizeY],
                  palette |-> glwFile.colorPalette]]

\* the project as it is: what the file written now will be compared with
Project ==
    [colorMap |-> colorMap, view |-> View(Store),
     undoStack |-> undoStack, redoStack |-> redoStack]

\* createGlwFromProject on the store and the history, and the JSON text of the
\* document written to the file
CallCreateGlwFromProject ==
    /\ ~content.written
    /\ content' = [written |-> TRUE, parses |-> TRUE,
                   text |-> stringify(Store,
                               createGlwFromProject(gridSize.x, gridSize.y, gridSize.z,
                                                    Store, colorMap, History, << >>)),
                   project |-> Project]
    /\ returned' = [op |-> "createGlwFromProject"]
    /\ Called("createGlwFromProject", TRUE, -1)
    /\ UNCHANGED <<storeVars, heapVars, snapshots, paints, deletedIds, historyVars,
                   undone, restoredIds>>

\* the file is read and parsed, the store and the history are cleared, and
\* restoreProjectFromGlw restores the document into them
CallRestoreProjectFromGlw ==
    /\ content.written
    /\ nextObj <= MaxObjs
    /\ LET parsed == parse(clear(Store), content.text)
           r == restoreProjectFromGlw(parsed.glwFile, parsed.S, clearHistory(History))
       IN  /\ SetStore(r.S)
           /\ SetHistory(r.H)
           /\ returned' = [op |-> "restoreProjectFromGlw", ok |-> r.ok, ret |-> r.ret]
           /\ Called("restoreProjectFromGlw", r.ok, -1)
           /\ restoredIds' = {content.text.undoRedoHistory[i].id :
                                 i \in DOMAIN content.text.undoRedoHistory}
    /\ deletedIds' = {}
    /\ UNCHANGED <<snapshots, paints, undone, content>>

\* a project is edited, written to a file once, and restored from the file
ProjectNext ==
    \/ /\ ~content.written
       /\ \/ \E position \in Positions : CallAddVoxel(position)
          \/ \E voxelId \in VoxelIdArgs, faceId \in PaintFaceArgs, color \in PaintColors :
                CallColorSpecificFace(voxelId, faceId, color)
          \/ CallPushAction("colorFace", 0)
          \/ CallUndo
    \/ CallCreateGlwFromProject
    \/ CallRestoreProjectFromGlw

SpecProject == Init /\ [][ProjectNext]_vars

----------------------------------------------------------------------------
(* The history restored from a file: restoreAction, restoreHistory, deserialize *)

\* an action of an earlier session, as it is read from a file
RestoredAction(id) ==
    [id |-> id, type |-> "colorFace", timestamp |-> "earlier",
     description |-> "description", data |-> [voxelId |-> 0], targetObject |-> "main"]

\* the lists of actions given to restoreHistory: one or two of ids up to
\* MaxRestoredId, in either order
RestoredLists ==
    {<<RestoredAction(i)>> : i \in 0..MaxRestoredId}
    \cup {<<RestoredAction(p[1]), RestoredAction(p[2])>> :
             p \in {q \in (0..MaxRestoredId) \X (0..MaxRestoredId) : q[1] # q[2]}}

\* the texts given to deserialize: not JSON, null, a number, and objects whose
\* undoStack and redoStack are each missing, not a list, or a list
JsonMembers ==
    {Member(FALSE, FALSE, << >>), Member(TRUE, FALSE, << >>), Member(TRUE, TRUE, << >>),
     Member(TRUE, TRUE, <<RestoredAction(0)>>)}
JsonTexts ==
    {[parses |-> FALSE, type |-> "none", undoStack |-> Member(FALSE, FALSE, << >>),
      redoStack |-> Member(FALSE, FALSE, << >>)]}
    \cup {[parses |-> TRUE, type |-> t, undoStack |-> Member(FALSE, FALSE, << >>),
           redoStack |-> Member(FALSE, FALSE, << >>)] : t \in {"null", "number"}}
    \cup {[parses |-> TRUE, type |-> "object", undoStack |-> u, redoStack |-> r] :
             u \in JsonMembers, r \in JsonMembers}

restoreSide == <<storeVars, heapVars, snapshots, paints, deletedIds, undone, content>>

CallRestoreAction(action) ==
    /\ Len(undoStack) + Len(redoStack) < MaxStack
    /\ SetHistory(restoreAction(History, action))
    /\ returned' = [op |-> "restoreAction", actions |-> <<action>>]
    /\ Called("restoreAction", TRUE, action.id)
    /\ restoredIds' = restoredIds \cup {action.id}
    /\ UNCHANGED restoreSide

CallRestoreHistory(actions) ==
    /\ SetHistory(restoreHistory(History, actions))
    /\ returned' = [op |-> "restoreHistory", actions |-> actions]
    /\ Called("restoreHistory", TRUE, -1)
    /\ restoredIds' = restoredIds \cup {actions[i].id : i \in DOMAIN actions}
    /\ UNCHANGED restoreSide

CallDeserialize(json) ==
    /\ LET r == deserialize(History, json)
       IN  /\ SetHistory(r.H)
           /\ returned' = [op |-> "deserialize", json |-> json, ok |-> r.ok,
                           threw |-> r.threw]
           /\ Called("deserialize", r.ok, -1)
    /\ UNCHANGED <<restoreSide, restoredIds>>

\* pushAction while the stacks hold fewer than MaxStack actions
PushInSession ==
    /\ Len(undoStack) + Len(redoStack) < MaxStack
    /\ CallPushAction("colorFace", 0)

RestoreNext ==
    \/ PushInSession
    \/ CallUndo
    \/ CallClearHistory
    \/ \E id \in 0..MaxRestoredId : CallRestoreAction(RestoredAction(id))
    \/ \E actions \in RestoredLists : CallRestoreHistory(actions)
    \/ \E json \in JsonTexts : CallDeserialize(json)

SpecRestore == Init /\ [][RestoreNext]_vars

\* serialize: the caller keeps the text, here with the history it was made of
CallSerialize ==
    /\ ~content.written
    /\ content' = [written |-> TRUE, parses |-> TRUE, text |-> serialize(History),
                   history |-> History]
    /\ returned' = [op |-> "serialize"]
    /\ Called("serialize", TRUE, -1)
    /\ UNCHANGED <<storeVars, heapVars, snapshots, paints, deletedIds, undone,
                   historyVars, restoredIds>>

\* a history is serialized once, goes on changing, and the text is
\* deserialized into it
RoundTripNext ==
    \/ PushInSession
    \/ CallUndo
    \/ CallRedo
    \/ CallClearHistory
    \/ CallSerialize
    \/ content.written /\ CallDeserialize(content.text)

SpecRoundTrip == Init /\ [][RoundTripNext]_vars

----------------------------------------------------------------------------
(* Loading a project file: FileManager.loadGlw, migrateGlwFile,            *)
(* validateGlwSchema, saveGlw                                              *)
(*                                                                         *)
(* A member an object lacks is a field the record lacks.                   *)

\* 10 * 1024 * 1024
MAX_FILE_SIZE == 10485760

Has(object, member) == member \in DOMAIN object

\* !object.member of a number member: it is missing or 0
NoNumber(object, member) == ~Has(object, member) \/ object[member] = 0

\* parseInt(parts[i], 10) || 0
partOr0(parts, i) ==
    IF i > Len(parts) \/ parseInt(parts[i]).nan THEN 0 ELSE parseInt(parts[i]).n

\* parseVersion: version.split('.')
parseVersion(version) ==
    [major |-> partOr0(version, 1), minor |-> partOr0(version, 2),
     patch |-> partOr0(version, 3)]

isVersionCompatible(version) ==
    parseVersion(CURRENT_VERSION).major = parseVersion(version).major

\* migrateGlwFile of a document that has metadata and mainObject
migrateGlwFile(glwFile) ==
    LET metadata == glwFile.metadata
        mainObject == glwFile.mainObject
    IN  [version |-> CURRENT_VERSION,
         adjacentObjects |-> IF Has(glwFile, "adjacentObjects")
                             THEN glwFile.adjacentObjects ELSE << >>,
         metadata |->
            (IF NoNumber(metadata, "gridSizeZ")
             THEN [gridSizeZ |-> metadata.gridSizeY] ELSE [gridSizeZ |-> metadata.gridSizeZ])
            @@ (IF NoNumber(metadata, "maxGridX")
                THEN [maxGridX |-> 50] ELSE [maxGridX |-> metadata.maxGridX])
            @@ (IF NoNumber(metadata, "maxGridY")
                THEN [maxGridY |-> 50] ELSE [maxGridY |-> metadata.maxGridY])
            @@ metadata,
         mainObject |->
            (IF NoNumber(mainObject, "gridSizeZ")
             THEN [gridSizeZ |-> mainObject.gridSizeY]
             ELSE [gridSizeZ |-> mainObject.gridSizeZ])
            @@ mainObject]
        @@ glwFile

\* a JSON value of a kind: a list, an object (a dictionary), null, a number or
\* a string
Json(kind) == [kind |-> kind]

\* Array.isArray(object.member)
isArrayMember(object, member) == Has(object, member) /\ object[member].kind = "list"

\* typeof object.member: a list, a dictionary and null are all 'object'
typeofMember(object, member) ==
    IF ~Has(object, member) THEN "undefined"
    ELSE IF object[member].kind \in {"list", "object", "null"} THEN "object"
    ELSE object[member].kind

\* validateGlwSchema: version, metadata and mainObject are there, voxels,
\* colorPalette and undoRedoHistory are lists and typeof colors is 'object'
validateGlwSchema(glwFile) ==
    /\ Has(glwFile, "version") /\ glwFile.version # <<"">>
    /\ Has(glwFile, "metadata")
    /\ Has(glwFile, "mainObject")
    /\ isArrayMember(glwFile.mainObject, "voxels")
    /\ typeofMember(glwFile.mainObject, "colors") = "object"
    /\ isArrayMember(glwFile, "colorPalette")
    /\ isArrayMember(glwFile, "undoRedoHistory")

\* loadGlw returns null
Rejected == [ok |-> FALSE, migrated |-> FALSE]

\* loadGlw: no file, a text that does not parse, a missing version (split of
\* undefined) and, while migrating, a missing metadata or mainObject all end
\* in the catch and give null; the document is migrated if its version is not
\* compatible, and returned if the schema is valid
loadGlw(file) ==
    IF ~file.written \/ ~file.parses THEN Rejected
    ELSE IF ~Has(file.text, "version") THEN Rejected
    ELSE IF ~isVersionCompatible(file.text.version)
    THEN IF ~Has(file.text, "metadata") \/ ~Has(file.text, "mainObject") THEN Rejected
         ELSE IF validateGlwSchema(migrateGlwFile(file.text))
         THEN [ok |-> TRUE, migrated |-> TRUE, glwFile |-> migrateGlwFile(file.text)]
         ELSE Rejected
    ELSE IF validateGlwSchema(file.text)
    THEN [ok |-> TRUE, migrated |-> FALSE, glwFile |-> file.text]
    ELSE Rejected

\* saveGlw of a document whose JSON text has this length: updatedAt is
\* refreshed, and the text is written unless it is longer than MAX_FILE_SIZE
saveGlw(glwFile, length) ==
    IF length > MAX_FILE_SIZE THEN [ok |-> FALSE]
    ELSE [ok |-> TRUE, text |-> [glwFile EXCEPT !.metadata.updatedAt = "later"]]

\* the versions found in files: the current one, a later minor, other majors,
\* one that is no number, and the empty text
FileVersions ==
    {<<"1", "0", "0">>, <<"1", "2", "0">>, <<"2", "0", "0">>, <<"0", "9", "0">>,
     <<"abc">>, <<"">>}

\* the kinds of voxels, colors, colorPalette and undoRedoHistory the document
\* format gives them
formatShape ==
    [voxels |-> "list", colors |-> "object", colorPalette |-> "list",
     undoRedoHistory |-> "list"]

\* the shapes found in files: the format's, and the ones that differ from it
\* in one member, which is of another kind or missing
FileShapes ==
    {formatShape}
    \cup {[formatShape EXCEPT !.voxels = k] : k \in {"object", "null", "missing"}}
    \cup {[formatShape EXCEPT !.colors = k] :
             k \in {"list", "null", "number", "string", "missing"}}
    \cup {[formatShape EXCEPT !.colorPalette = k] : k \in {"object", "missing"}}
    \cup {[formatShape EXCEPT !.undoRedoHistory = k] : k \in {"object", "null", "missing"}}

\* the members of a kind: none if it is missing
Members(names, shape) ==
    [member \in {n \in names : shape[n] # "missing"} |-> Json(shape[member])]

\* the files found on disk: each of version, metadata, mainObject,
\* adjacentObjects and the gridSizeZ members is there or not, and voxels,
\* colors, colorPalette and undoRedoHistory have one of the shapes
Files ==
    {(IF o.version THEN [version |-> v] ELSE << >>)
     @@ (IF o.metadata
         THEN [metadata |->
                 (IF o.gridSizeZ THEN [gridSizeZ |-> 3] ELSE << >>)
                 @@ [version |-> v, createdAt |-> "earlier", updatedAt |-> "earlier",
                     gridSizeX |-> 1, gridSizeY |-> 2]]
         ELSE << >>)
     @@ (IF o.mainObject
         THEN [mainObject |->
                 (IF o.gridSizeZ THEN [gridSizeZ |-> 3] ELSE << >>)
                 @@ [gridSizeX |-> 1, gridSizeY |-> 2]
                 @@ Members({"voxels", "colors"}, shape)]
         ELSE << >>)
     @@ (IF o.adjacentObjects THEN [adjacentObjects |-> << >>] ELSE << >>)
     @@ Members({"colorPalette", "undoRedoHistory"}, shape) :
        v \in FileVersions,
        o \in [version : BOOLEAN, metadata : BOOLEAN, mainObject : BOOLEAN,
               gridSizeZ : BOOLEAN, adjacentObjects : BOOLEAN],
        shape \in FileShapes}

\* jsonString.length of the text of a document of the model
jsonLength == 1024

loadSide == <<storeVars, heapVars, snapshots, paints, deletedIds, undone, historyVars,
              restoredIds>>

\* a file is chosen to be opened
ChooseFile(text, parses) ==
    /\ ~content.written
    /\ content' = [written |-> TRUE, parses |-> parses, text |-> text]
    /\ returned' = NoReturn
    /\ Called("chooseFile", TRUE, -1)
    /\ UNCHANGED loadSide

CallLoadGlw ==
    /\ returned' = [op |-> "loadGlw"] @@ loadGlw(content)
    /\ Called("loadGlw", loadGlw(content).ok, -1)
    /\ UNCHANGED <<loadSide, content>>

\* the document loadGlw returned is saved over the file
CallSaveGlw ==
    /\ returned.op = "loadGlw"
    /\ returned.ok
    /\ LET r == saveGlw(returned.glwFile, jsonLength)
       IN  /\ content' = IF r.ok THEN [written |-> TRUE, parses |-> TRUE, text |-> r.text]
                         ELSE content
           /\ returned' = [op |-> "saveGlw", ok |-> r.ok]
           /\ Called("saveGlw", r.ok, -1)
    /\ UNCHANGED loadSide

LoadNext ==
    \/ \E text \in Files, parses \in BOOLEAN : ChooseFile(text, parses)
    \/ CallLoadGlw
    \/ CallSaveGlw

SpecLoad == Init /\ [][LoadNext]_vars

----------------------------------------------------------------------------
(* Saving a project: FileManager.createGlwTemplate and handleSave of both  *)
(* editors                                                                 *)

createGlwTemplate(gridSizeX, gridSizeY) ==
    [version |-> CURRENT_VERSION,
     metadata |-> [version |-> CURRENT_VERSION, createdAt |-> Timestamp,
                   updatedAt |-> Timestamp, gridSizeX |-> gridSizeX,
                   gridSizeY |-> gridSizeY, gridSizeZ |-> gridSizeY,
                   maxGridX |-> 50, maxGridY |-> 50, maxGrid |-> 50],
     mainObject |-> [gridSizeX |-> gridSizeX, gridSizeY |-> gridSizeY,
                     gridSizeZ |-> gridSizeY, voxels |-> << >>, colors |-> << >>],
     adjacentObjects |-> << >>,
     colorPalette |-> getDefaultColorPalette,
     undoRedoHistory |-> << >>]

\* the document both handleSave build: the template with
\* mainObject.voxels = Array.from(getVoxels().values()), in the order of the ids
savedDocument(S) ==
    [createGlwTemplate(gridSize.x, gridSize.y) EXCEPT !.mainObject.voxels =
        [i \in 1..Cardinality(DOMAIN S.voxels) |->
            S.voxels[ascending(DOMAIN S.voxels)[i]]]]

\* jsonString.length is not computed from the document: a text is short, has
\* exactly MAX_FILE_SIZE characters, or has one more
JsonLengths == {jsonLength, MAX_FILE_SIZE, MAX_FILE_SIZE + 1}

\* a file written by window.api.saveProjectFile
Written(text, length) ==
    [written |-> TRUE, parses |-> TRUE, text |-> text, length |-> length]

\* handleSave of the first editor: the save dialog may be canceled; else the
\* document is stringified and handed to window.api.saveProjectFile
handleSave(canceled, length) ==
    /\ IF canceled
       THEN /\ UNCHANGED content
            /\ returned' = [op |-> "handleSave", ok |-> FALSE, length |-> 0]
       ELSE /\ content' = Written(stringify(Store, savedDocument(Store)), length)
            /\ returned' = [op |-> "handleSave", ok |-> TRUE, length |-> length]
    /\ Called("handleSave", ~canceled, -1)
    /\ UNCHANGED loadSide

\* handleSave of the second editor: the document goes through FileManager.saveGlw
keySave(length) ==
    /\ LET r == saveGlw(savedDocument(Store), length)
       IN  /\ content' = IF r.ok THEN Written(stringify(Store, r.text), length) ELSE content
           /\ returned' = [op |-> "keySave", ok |-> r.ok, length |-> length]
           /\ Called("keySave", r.ok, -1)
    /\ UNCHANGED loadSide

\* voxels are added and deleted, then the project is saved
SaveNext ==
    \/ /\ ~content.written
       /\ \/ \E position \in Positions : CallAddVoxel(position)
          \/ \E voxelId \in VoxelIdArgs : CallDeleteVoxel(voxelId)
    \/ \E canceled \in BOOLEAN, length \in JsonLengths : handleSave(canceled, length)
    \/ \E length \in JsonLengths : keySave(length)

SpecSave == Init /\ [][SaveNext]_vars

----------------------------------------------------------------------------
(* ActionHistory.validate                                                  *)

\* an element of a stack that is null, as JSON.parse gives for `null` in a list
nullEntry == [null |-> TRUE]
isNull(entry) == Has(entry, "null")

\* the empty text as an id (an id n is the text `action_${n}`)
emptyId == -1

\* !action.member: the member is missing or is the empty text
Falsy(action, member, empty) == ~Has(action, member) \/ action[member] = empty

RECURSIVE validateFrom(_, _)
\* the loop of validate over the actions not yet looked at, with the ids seen:
\* reading a member of null throws, an action without id, type or timestamp or
\* with an id seen before gives false
validateFrom(allActions, ids) ==
    IF allActions = << >> THEN [ok |-> TRUE, threw |-> FALSE]
    ELSE LET action == Head(allActions)
         IN  IF isNull(action) THEN [ok |-> FALSE, threw |-> TRUE]
             ELSE IF \/ Falsy(action, "id", emptyId)
                     \/ Falsy(action, "type", "")
                     \/ Falsy(action, "timestamp", "")
             THEN [ok |-> FALSE, threw |-> FALSE]
             ELSE IF action.id \in ids THEN [ok |-> FALSE, threw |-> FALSE]
             ELSE validateFrom(Tail(allActions), ids \cup {action.id})

\* validate: [...undoStack, ...redoStack] is checked from its first element
validate(H) == validateFrom(H.undoStack \o H.redoStack, {})

\* the elements of the lists of a history text: two actions, actions that lack
\* the id or the timestamp, actions whose id or type is the empty text, and null
FileEntries ==
    {RestoredAction(0), RestoredAction(1),
     [type |-> "colorFace", timestamp |-> "earlier", description |-> "description",
      data |-> [voxelId |-> 0], targetObject |-> "main"],
     [id |-> 0, type |-> "colorFace", description |-> "description",
      data |-> [voxelId |-> 0], targetObject |-> "main"],
     [RestoredAction(0) EXCEPT !.id = emptyId],
     [RestoredAction(0) EXCEPT !.type = ""],
     nullEntry}

\* the lists of a history text: up to two elements
FileLists ==
    {<< >>} \cup {<<e>> : e \in FileEntries}
    \cup {<<p[1], p[2]>> : p \in FileEntries \X FileEntries}

\* the history texts deserialize accepts: a redo list of at most one element
HistoryTexts ==
    {[parses |-> TRUE, type |-> "object", undoStack |-> Member(TRUE, TRUE, u),
      redoStack |-> Member(TRUE, TRUE, r)] :
        u \in FileLists, r \in {l \in FileLists : Len(l) <= 1}}

CallValidate ==
    /\ returned' = [op |-> "validate"] @@ validate(History)
    /\ Called("validate", validate(History).ok, -1)
    /\ UNCHANGED querySide

\* a history text is deserialized into an empty history, actions are pushed,
\* and the history is validated
ValidateNext ==
    \/ /\ Len(undoStack) + Len(redoStack) = 0
       /\ \E json \in HistoryTexts : CallDeserialize(json)
    \/ PushInSession
    \/ CallClearHistory
    \/ CallValidate

SpecValidate == Init /\ [][ValidateNext]_vars

----------------------------------------------------------------------------
(* Restoring onto a full undo stack *)

\* restoreAction of an action of an earlier session when the undo stack holds
\* maxStackSize actions
CapRestore ==
    /\ Len(undoStack) = maxStackSize
    /\ SetHistory(restoreAction(History, RestoredAction(0)))
    /\ returned' = [op |-> "restoreAction", actions |-> <<RestoredAction(0)>>]
    /\ Called("restoreAction", TRUE, 0)
    /\ restoredIds' = restoredIds \cup {0}
    /\ UNCHANGED restoreSide

\* actions are pushed up to the cap and past it, and one is restored
OverflowNext ==
    \/ CapPush
    \/ CapRestore

SpecOverflow == Init /\ [][OverflowNext]_vars

----------------------------------------------------------------------------
(* Loading a project in the editor: handleLoad                             *)
(*                                                                         *)
(* handleLoad waits for the open dialog and then for the file read; what   *)
(* follows the read runs to its end without giving way.  `returned` holds  *)
(* what the handler is waiting for.                                        *)

\* a voxel record of a project file, as the editor writes it
FileVoxel(id, position) ==
    [id |-> id, position |-> position,
     vertices |-> createVertices(position, 8 * id),
     faces |-> [k \in 1..6 |->
                  [id |-> createFaces(createVertices(position, 8 * id))[k].id,
                   vertexIds |-> createFaces(createVertices(position, 8 * id))[k].vertexIds,
                   normal |-> createFaces(createVertices(position, 8 * id))[k].normal,
                   color |-> DEFAULT_COLOR]]]

\* a voxel record that lacks its faces
FacelessVoxel(id, position) ==
    [id |-> id, position |-> position, vertices |-> createVertices(position, 8 * id)]

\* the lists mainObject.voxels of the files that are opened: complete records,
\* and lists with a null or a record without faces in them
LoadedLists ==
    {<< >>,
     <<FileVoxel(0, Vec(0, 0, 0))>>,
     <<FileVoxel(0, Vec(1, 0, 0)), FileVoxel(1, Vec(0, 0, 0))>>,
     <<nullEntry>>,
     <<FileVoxel(0, Vec(0, 0, 0)), nullEntry>>,
     <<FileVoxel(0, Vec(0, 0, 0)), FacelessVoxel(1, Vec(1, 0, 0))>>}

\* the files that are opened: the read fails, the text does not parse, or the
\* text is a document with one of the lists
LoadedFiles ==
    {[written |-> TRUE, reads |-> FALSE, parses |-> FALSE, text |-> << >>],
     [written |-> TRUE, reads |-> TRUE, parses |-> FALSE, text |-> << >>]}
    \cup {[written |-> TRUE, reads |-> TRUE, parses |-> TRUE,
           text |-> [mainObject |-> [voxels |-> list]]] : list \in LoadedLists}

RECURSIVE loadVoxels(_, _)
\* glwFile.mainObject.voxels.forEach(voxelData => restoreVoxel(voxelData.id,
\* voxelData)): reading the id of null throws; restoreVoxel of a record without
\* faces sets the voxel and throws at voxel.faces.forEach; a complete record
\* comes with the face objects JSON.parse made for it
loadVoxels(S, records) ==
    IF records = << >> THEN [S |-> S, threw |-> FALSE]
    ELSE LET voxelData == Head(records)
         IN  IF isNull(voxelData) THEN [S |-> S, threw |-> TRUE]
             ELSE IF voxelData.id \in DOMAIN S.voxels
             THEN loadVoxels(S, Tail(records))
             ELSE IF ~Has(voxelData, "faces")
             THEN [S |-> [S EXCEPT !.voxels =
                            With(@, voxelData.id,
                                 [id |-> voxelData.id, position |-> voxelData.position,
                                  vertices |-> voxelData.vertices])],
                   threw |-> TRUE]
             ELSE LET parsed == [S EXCEPT
                                   !.faceColor = With(@, S.nextObj,
                                       [f \in faceIdsOf(voxelData.faces) |->
                                           voxelData.faces[findFace(voxelData.faces, f)].color]),
                                   !.nextObj = @ + 1]
                      snapshot == [position |-> voxelData.position,
                                   vertices |-> voxelData.vertices,
                                   faces |-> [k \in DOMAIN voxelData.faces |->
                                                [id |-> voxelData.faces[k].id,
                                                 vertexIds |-> voxelData.faces[k].vertexIds,
                                                 normal |-> voxelData.faces[k].normal]],
                                   obj |-> S.nextObj]
                  IN  loadVoxels(restoreVoxel(parsed, voxelData.id, snapshot).S,
                                 Tail(records))

\* handleLoad from the read on, without the clear of the history at its end
loadProject_keepHistory(S, H, file) ==
    IF ~file.reads \/ ~file.parses THEN [S |-> S, H |-> H, ok |-> FALSE]
    ELSE LET r == loadVoxels(clear(S), file.text.mainObject.voxels)
         IN  IF r.threw THEN [S |-> r.S, H |-> H, ok |-> FALSE]
             ELSE [S |-> r.S, H |-> H, ok |-> TRUE]

\* handleLoad from the read on: a failed read and a text that does not parse
\* throw before anything is touched; then the store is cleared, the voxels are
\* restored, and the history is cleared last; whatever throws ends in the catch
loadProject(S, H, file) ==
    IF ~file.reads \/ ~file.parses THEN [S |-> S, H |-> H, ok |-> FALSE]
    ELSE LET r == loadVoxels(clear(S), file.text.mainObject.voxels)
         IN  IF r.threw THEN [S |-> r.S, H |-> H, ok |-> FALSE]
             ELSE [S |-> r.S, H |-> clearHistory(H), ok |-> TRUE]

Waiting(for) == returned.op = "handleLoad" /\ returned.await = for

\* handleLoad is called: it shows the open dialog and waits
handleLoad ==
    /\ returned.op # "handleLoad"
    /\ returned' = [op |-> "handleLoad", await |-> "showOpenDialog", objs |-> nextObj,
                    actions |-> Len(undoStack) + Len(redoStack)]
    /\ Called("showOpenDialog", TRUE, -1)
    /\ UNCHANGED <<storeVars, heapVars, historyVars, snapshots, paints, deletedIds,
                   undone, content, restoredIds>>

\* the open dialog returns: canceled, or with a file, whose read is awaited
dialogReturns(canceled, file) ==
    /\ Waiting("showOpenDialog")
    /\ IF canceled
       THEN /\ returned' = [returned EXCEPT !.await = "none"]
            /\ Called("handleLoad", FALSE, -1)
            /\ UNCHANGED content
       ELSE /\ returned' = [returned EXCEPT !.await = "loadProjectFile"]
            /\ Called("loadProjectFile", TRUE, -1)
            /\ content' = file
    /\ UNCHANGED <<storeVars, heapVars, historyVars, snapshots, paints, deletedIds,
                   undone, restoredIds>>

\* the read returns and handleLoad runs to its end
readReturns ==
    /\ Waiting("loadProjectFile")
    /\ LET r == loadProject(Store, History, content)
       IN  /\ SetStore(r.S)
           /\ SetHistory(r.H)
           /\ Called("handleLoad", r.ok, -1)
    /\ returned' = [returned EXCEPT !.await = "none"]
    /\ UNCHANGED <<snapshots, paints, deletedIds, undone, content, restoredIds>>

\* the editor is used, also while a load waits, until the load has ended
HandleLoadNext ==
    \/ /\ ~Waiting("none")
       /\ \/ \E v \in DOMAIN voxels, f \in SelectedFaceIds : handleAddVoxel(v, f)
          \/ \E v \in DOMAIN voxels : handleDeleteVoxel(v)
          \/ undoButton
          \/ redoButton
    \/ handleLoad
    \/ \E canceled \in BOOLEAN, file \in LoadedFiles : dialogReturns(canceled, file)
    \/ readReturns

SpecHandleLoad == EditorInit /\ [][HandleLoadNext]_vars

----------------------------------------------------------------------------
(* A store whose caller keeps two snapshots of a voxel                     *)

\* number of snapshots kept where an earlier snapshot is restored
MaxKept == 2

\* deleteVoxel; the caller keeps the snapshot (at most MaxKept of them)
CallDeleteVoxelKeep(voxelId) ==
    /\ LET r == deleteVoxel(Store, voxelId)
       IN  /\ SetStore(r.S)
           /\ Called("deleteVoxel", r.ok, voxelId)
           /\ IF r.ok
              THEN /\ Cardinality(snapshots \cup {[voxelId |-> voxelId, snapshot |-> r.ret]})
                         <= MaxKept
                   /\ snapshots' = snapshots \cup {[voxelId |-> voxelId, snapshot |-> r.ret]}
              ELSE UNCHANGED snapshots
           /\ deletedIds' = IF r.ok THEN deletedIds \cup {voxelId} ELSE deletedIds
    /\ UNCHANGED <<paints, historyVars, undone, fileVars>>

\* voxels are added at two positions, one face of each is painted, and any
\* snapshot kept is restored at any time
SnapshotNext ==
    \/ \E position \in {Vec(0, 0, 0), Vec(1, 0, 0)} : CallAddVoxel(position)
    \/ \E voxelId \in VoxelIdArgs : CallDeleteVoxelKeep(voxelId)
    \/ \E s \in snapshots : CallRestoreVoxel(s.voxelId, s.snapshot)
    \/ \E voxelId \in VoxelIdArgs, color \in PaintColors :
            CallColorSpecificFace(voxelId, "face_0", color)
    \/ CallClear

SpecSnapshots == Init /\ [][SnapshotNext]_vars

----------------------------------------------------------------------------
(* Properties of the store *)

LiveIds == DOMAIN voxels

\* C1: no two live voxels have the same position, in every state the store
\* methods reach (restoreVoxel of a snapshot whose position was taken included)
C1_UniquePositions ==
    \A a \in LiveIds, b \in LiveIds : a # b => voxels[a].position # voxels[b].position

\* C2: a successful addVoxel or addVoxelAtFaceId returns a voxel whose id was not
\* live when it was called, and the voxel count grows by exactly one
C2_AddReturnsFreshId ==
    [][(lastCall'.op \in {"addVoxel", "addVoxelAtFaceId"} /\ lastCall'.ok)
        => /\ lastCall'.id \notin DOMAIN voxels
           /\ getVoxelCount(Store') = getVoxelCount(Store) + 1]_vars


\* C3: deleting a live voxel and restoring it from the returned snapshot under
\* the same id succeeds and gives back the same store: the voxel (position,
\* vertices, faces), the color map, the cached face colors and both counters
C3_DeleteRestoreRoundTrip ==
    \A id \in LiveIds :
        LET d == deleteVoxel(Store, id)
            r == restoreVoxel(d.S, id, d.ret)
        IN  /\ d.ok
            /\ id \notin DOMAIN d.S.voxels
            /\ r.ok
            /\ r.S = Store

\* a painted voxel has been deleted and restored
C3_Witness ==
    /\ lastCall.op = "restoreVoxel"
    /\ lastCall.ok
    /\ \E f \in FaceIds :
        /\ <<lastCall.id, f>> \in DOMAIN colorMap
        /\ colorMap[<<lastCall.id, f>>] \in PaintColors
        /\ faceColor[voxels[lastCall.id].obj][f] = colorMap[<<lastCall.id, f>>]

\* the positions, one step around the ones addVoxel is given
NearPositions == [x : -1..(MaxCoord + 1), y : -1..1, z : -1..1]

\* the documented position delta of a face normal
Delta(normal) ==
    CASE normal = "x+" -> [x |-> 1, y |-> 0, z |-> 0]
      [] normal = "x-" -> [x |-> -1, y |-> 0, z |-> 0]
      [] normal = "y+" -> [x |-> 0, y |-> 1, z |-> 0]
      [] normal = "y-" -> [x |-> 0, y |-> -1, z |-> 0]
      [] normal = "z+" -> [x |-> 0, y |-> 0, z |-> 1]
      [] normal = "z-" -> [x |-> 0, y |-> 0, z |-> -1]

Plus(p, d) == [x |-> p.x + d.x, y |-> p.y + d.y, z |-> p.z + d.z]

\* the normal of the face of a live voxel with this id
NormalOf(voxelId, faceId) ==
    LET faces == voxels[voxelId].faces
    IN  faces[CHOOSE k \in DOMAIN faces : faces[k].id = faceId].normal

Occupied(p) == \E id \in LiveIds : voxels[id].position = p

InGrid(p) ==
    /\ ~LessThan(p.x, gridBounds.minX) /\ LessThan(p.x, gridBounds.maxX)
    /\ ~LessThan(p.y, gridBounds.minY) /\ LessThan(p.y, gridBounds.maxY)
    /\ ~LessThan(p.z, gridBounds.minZ) /\ LessThan(p.z, gridBounds.maxZ)

\* the call failed and left the store as it is
Rejects(r) == ~r.ok /\ r.S = Store

\* C8: every rejected store operation returns its failure value and leaves the
\* store (voxel map, color map, both counters, face colors) unchanged
C8_RejectedLeavesStore ==
    /\ \A p \in NearPositions :
        (Occupied(p) \/ ~InGrid(p)) =>
            LET r == addVoxel(Store, p) IN Rejects(r) /\ r.ret = NULL
    /\ \A v \in VoxelIdArgs, f \in FaceIdArgs :
        (\/ v \notin LiveIds
         \/ f \notin faceIdsOf(voxels[v].faces)
         \/ Occupied(Plus(voxels[v].position, Delta(NormalOf(v, f))))
         \/ ~InGrid(Plus(voxels[v].position, Delta(NormalOf(v, f))))) =>
            LET r == addVoxelAtFaceId(Store, v, f) IN Rejects(r) /\ r.ret = NULL
    /\ \A v \in VoxelIdArgs \ LiveIds :
            LET r == deleteVoxel(Store, v) IN Rejects(r) /\ r.ret = NULL
    /\ \A v \in LiveIds, s \in snapshots :
            LET r == restoreVoxel(Store, v, s.snapshot) IN Rejects(r) /\ r.ret = FALSE
    /\ \A v \in VoxelIdArgs, f \in FaceIdArgs, c \in PaintColors :
        (v \notin LiveIds \/ f \notin faceIdsOf(voxels[v].faces)) =>
            LET r == colorSpecificFace(Store, v, f, c) IN Rejects(r) /\ r.ret = FALSE

\* a call was rejected on a store that holds voxels and colors
C8_Witness ==
    /\ ~lastCall.ok
    /\ lastCall.op = "restoreVoxel"
    /\ LiveIds # {}
    /\ DOMAIN colorMap # {}

\* C9: a successful addVoxelAtFaceId(v, f) creates exactly one new voxel, at the
\* position of v plus the delta of the normal of f, and leaves v and every other
\* voxel unchanged
C9_Extrusion ==
    [][(lastCall'.op = "addVoxelAtFaceId" /\ lastCall'.ok)
        => /\ lastCall'.id \notin LiveIds
           /\ DOMAIN voxels' = LiveIds \cup {lastCall'.id}
           /\ voxels'[lastCall'.id].position =
                Plus(voxels[lastCall'.voxelId].position,
                     Delta(NormalOf(lastCall'.voxelId, lastCall'.faceId)))
           /\ \A u \in LiveIds : voxels'[u] = voxels[u]]_vars

\* C10: once deleteVoxel(id) has succeeded, no later addVoxel or addVoxelAtFaceId
\* returns a voxel with that id, as long as the store is not cleared
C10_DeletedIdNotReissued ==
    [][(lastCall'.op \in {"addVoxel", "addVoxelAtFaceId"} /\ lastCall'.ok)
        => lastCall'.id \notin deletedIds]_vars

----------------------------------------------------------------------------
(* Properties of the history *)

Range(q) == {q[i] : i \in DOMAIN q}

\* C6: an undo after two pushes leaves the earlier action on top of the undo
\* stack and the redo stack non-empty; a push then empties the redo stack, and
\* what was in it is in neither stack; undo and redo only move actions between
\* the stacks, so they never bring it back
C6_LifoAndRedoInvalidation ==
    [][/\ (lastCall'.op = "undo" /\ lastCall'.ok /\ Len(undoStack) >= 2)
            => /\ peekUndo(History').ok
               /\ peekUndo(History').ret = undoStack[Len(undoStack) - 1]
               /\ canRedo(History')
               /\ peekRedo(History').ret = Last(undoStack)
       /\ (lastCall'.op = "pushAction")
            => /\ ~canRedo(History')
               /\ \A b \in Range(redoStack) :
                    b \notin Range(undoStack') \cup Range(redoStack')
       /\ (lastCall'.op \in {"undo", "redo"})
            => Range(undoStack') \cup Range(redoStack')
                    = Range(undoStack) \cup Range(redoStack)]_vars

\* A and C are on the undo stack and B, pushed between them and undone, is gone
C6_Witness ==
    /\ lastCall.op = "pushAction"
    /\ Len(undoStack) = 2
    /\ undoStack[1].id = 0
    /\ undoStack[2].id = 2
    /\ redoStack = << >>

\* C7: after maxStackSize + 1 pushes onto an empty history the undo stack holds
\* maxStackSize actions, the first one pushed is gone and the others are in
\* the order they were pushed
C7_StackCap ==
    (actionIdCounter = maxStackSize + 1) =>
        /\ Len(undoStack) = maxStackSize
        /\ \A i \in DOMAIN undoStack : undoStack[i].id = i

C7_Witness ==
    /\ actionIdCounter = maxStackSize + 1
    /\ lastCall.op = "pushAction"
    /\ redoStack = << >>

----------------------------------------------------------------------------
(* Properties of the editor *)

\* C4: once every recorded edit is undone, the live voxel ids, their positions
\* and the current color of every face are those of the freshly mounted editor
C4_UndoAllReturnsToStart ==
    (undoStack = << >>) => View(Store) = View(initialStore)

\* an add, a delete and a paint have been made and all three undone
C4_Witness ==
    /\ undoStack = << >>
    /\ lastCall.op = "undoButton"
    /\ {redoStack[i].type : i \in DOMAIN redoStack} = ActionTypes

\* C5: a redo made right after an undo leaves the live voxel ids, their positions
\* and the current face colors as they were before the undo
C5_RedoAfterUndo ==
    [][(lastCall.op \in {"undoButton", "keyUndo"} /\ lastCall'.op \in {"redoButton", "keyRedo"})
        => (undone.seen /\ View(Store') = undone.view)]_vars

----------------------------------------------------------------------------
(* Properties of the export and of the display mesh *)

Exported(id, faceId) ==
    \E e \in returned.faces : e.voxelId = id /\ e.faceId = faceId

\* C11: right after an export, a face of a live voxel is among the exported
\* faces if and only if no live voxel is at the voxel's position plus the delta
\* of the face's normal, whatever the colors; of two voxels at (0,0,0) and
\* (1,0,0) exactly the ten faces other than the touching pair are exported
C11_ExportCulling ==
    lastCall.op = "createGltfData" =>
        /\ \A id \in LiveIds : \A k \in DOMAIN voxels[id].faces :
              Exported(id, voxels[id].faces[k].id)
                 <=> ~Occupied(Plus(voxels[id].position, Delta(voxels[id].faces[k].normal)))
        /\ \A e \in returned.faces : e.voxelId \in LiveIds
        /\ \A a, b \in LiveIds :
              (/\ Cardinality(LiveIds) = 2
               /\ voxels[a].position = Vec(0, 0, 0)
               /\ voxels[b].position = Vec(1, 0, 0))
              => {<<e.voxelId, e.tag>> : e \in returned.faces}
                    = ({a, b} \X {"x+", "x-", "y+", "y-", "z+", "z-"})
                         \ {<<a, "x+">>, <<b, "x-">>}

\* two voxels at (0,0,0) and (1,0,0) whose touching faces have different
\* colors have been exported
C11_Witness ==
    /\ lastCall.op = "createGltfData"
    /\ \E a, b \in LiveIds :
          /\ Cardinality(LiveIds) = 2
          /\ voxels[a].position = Vec(0, 0, 0)
          /\ voxels[b].position = Vec(1, 0, 0)
          /\ currentColor(Store, a, "face_5") # currentColor(Store, b, "face_4")
          /\ Cardinality(returned.faces) = 10

dot(a, b) == a.x * b.x + a.y * b.y + a.z * b.z

\* C12: right after an export, for every triangle (a, b, c) of every exported
\* face the cross product (b - a) x (c - a) is a positive multiple of the
\* face's stored normal vector
C12_ExportWinding ==
    lastCall.op = "createGltfData" =>
        \A e \in returned.faces : \A t \in DOMAIN e.triangles :
            LET n == cross(sub(e.triangles[t][2], e.triangles[t][1]),
                           sub(e.triangles[t][3], e.triangles[t][1]))
            IN  /\ dot(n, e.normal) > 0
                /\ cross(n, e.normal) = Vec(0, 0, 0)

\* faces of all six direction tags have been exported, two triangles each
C12_Witness ==
    /\ lastCall.op = "createGltfData"
    /\ {e.tag : e \in returned.faces} = {"x+", "x-", "y+", "y-", "z+", "z-"}
    /\ \A e \in returned.faces : Len(e.triangles) = 2

\* C13: the flat normal the display mesh computes for a face from its stored
\* vertices, (v1 - v0) x (v2 - v0), points in the direction of the face's tag
C13_GridWinding ==
    lastCall.op = "toThreeMesh" =>
        \A mesh \in returned.meshes : mesh.normal = Delta(mesh.tag)

----------------------------------------------------------------------------
(* Properties of project files *)

\* C14: right after a project file is restored into the emptied store, every
\* entry of the color map the project had when the file was written is an
\* entry of the store's color map with the same color, and every face has
\* the current color it had then
C14_ColorsPersist ==
    lastCall.op = "restoreProjectFromGlw" =>
        /\ \A key \in DOMAIN content.project.colorMap :
              /\ key \in DOMAIN colorMap
              /\ colorMap[key] = content.project.colorMap[key]
        /\ View(Store) = content.project.view

\* C15: right after a project file is restored into the emptied history, the
\* undo stack is the one the project had when the file was written and
\* canRedo() is what it was then
C15_HistoryPersists ==
    lastCall.op = "restoreProjectFromGlw" =>
        /\ undoStack = content.project.undoStack
        /\ canRedo(History) = (Len(content.project.redoStack) > 0)

----------------------------------------------------------------------------
(* Properties of the restored history *)

\* the last n elements of a sequence
Suffix(q, n) == SubSeq(q, Len(q) - n + 1, Len(q))

\* C16: a call of restoreAction or restoreHistory leaves the redo stack as it
\* was and leaves the given actions, unchanged (id and timestamp included) and
\* in the given order, on top of the undo stack
C16_RestoreKeepsRedo ==
    [][lastCall'.op \in {"restoreAction", "restoreHistory"} =>
          /\ redoStack' = redoStack
          /\ Len(undoStack') >= Len(returned'.actions)
          /\ Suffix(undoStack', Len(returned'.actions)) = returned'.actions]_vars

\* C17: a pushAction mints an id that is the id of no action restored by
\* restoreAction or restoreHistory since the history was last cleared
C17_PushAvoidsRestoredIds ==
    lastCall.op = "pushAction" => lastCall.id \notin restoredIds

\* a push after actions of two different ids were restored, the larger id first
C17_Witness ==
    /\ lastCall.op = "pushAction"
    /\ Len(undoStack) = 3
    /\ undoStack[1].timestamp = "earlier" /\ undoStack[2].timestamp = "earlier"
    /\ undoStack[1].id > undoStack[2].id

\* the texts deserialize is to reject
Unacceptable(json) ==
    \/ ~json.parses
    \/ json.type # "object"
    \/ ~(json.undoStack.present /\ json.undoStack.isArray)
    \/ ~(json.redoStack.present /\ json.redoStack.isArray)

\* C18: deserialize of a text that does not parse, or whose undoStack or
\* redoStack is missing or not a list, returns false without throwing and
\* leaves both stacks and the id counter as they were
C18_DeserializeRejects ==
    [][(lastCall'.op = "deserialize" /\ Unacceptable(returned'.json)) =>
          /\ ~returned'.ok
          /\ ~returned'.threw
          /\ undoStack' = undoStack
          /\ redoStack' = redoStack
          /\ actionIdCounter' = actionIdCounter]_vars

\* a text with a list for undoStack and no redoStack was rejected by a history
\* with actions on both stacks
C18_Witness ==
    /\ lastCall.op = "deserialize"
    /\ ~returned.ok
    /\ returned.json.parses /\ returned.json.type = "object"
    /\ returned.json.undoStack = Member(TRUE, TRUE, <<RestoredAction(0)>>)
    /\ ~returned.json.redoStack.present
    /\ Len(undoStack) > 0 /\ Len(redoStack) > 0

----------------------------------------------------------------------------
(* Properties of loading *)

CurrentMajor == parseVersion(CURRENT_VERSION).major

\* C19: the document loadGlw returns has the major version of the file, and
\* loadGlw migrates exactly when the file's major version is not the current one
C19_MajorUnchanged ==
    (lastCall.op = "loadGlw" /\ returned.ok) =>
        /\ parseVersion(returned.glwFile.version).major
              = parseVersion(content.text.version).major
        /\ returned.migrated <=> parseVersion(content.text.version).major # CurrentMajor

\* C20: the document loadGlw returns for a file of the current major version
\* that lacks adjacentObjects or gridSizeZ has adjacentObjects = [] and
\* gridSizeZ = gridSizeY in metadata and mainObject
C20_MigrationFillsGaps ==
    (/\ lastCall.op = "loadGlw"
     /\ returned.ok
     /\ parseVersion(content.text.version).major = CurrentMajor
     /\ \/ ~Has(content.text, "adjacentObjects")
        \/ ~Has(content.text.metadata, "gridSizeZ")
        \/ ~Has(content.text.mainObject, "gridSizeZ"))
    => /\ Has(returned.glwFile, "adjacentObjects")
       /\ returned.glwFile.adjacentObjects = << >>
       /\ Has(returned.glwFile.metadata, "gridSizeZ")
       /\ returned.glwFile.metadata.gridSizeZ = returned.glwFile.metadata.gridSizeY
       /\ Has(returned.glwFile.mainObject, "gridSizeZ")
       /\ returned.glwFile.mainObject.gridSizeZ = returned.glwFile.mainObject.gridSizeY

----------------------------------------------------------------------------
(* Properties of loading and saving *)

\* the kind of a member, "missing" if the object lacks it
KindOf(object, member) == IF Has(object, member) THEN object[member].kind ELSE "missing"

\* C21: loadGlw returns a document only if version, metadata and mainObject
\* are present in it, mainObject.voxels, colorPalette and undoRedoHistory are
\* lists and mainObject.colors is a dictionary; a file that is missing or
\* does not parse gives null
C21_LoadValidates ==
    lastCall.op = "loadGlw" =>
        /\ returned.ok =>
              /\ content.written /\ content.parses
              /\ Has(returned.glwFile, "version")
              /\ Has(returned.glwFile, "metadata")
              /\ Has(returned.glwFile, "mainObject")
              /\ KindOf(returned.glwFile.mainObject, "voxels") = "list"
              /\ KindOf(returned.glwFile, "colorPalette") = "list"
              /\ KindOf(returned.glwFile, "undoRedoHistory") = "list"
              /\ KindOf(returned.glwFile.mainObject, "colors") = "object"
        /\ (~content.written \/ ~content.parses) => ~returned.ok

\* C22: a save whose JSON text is longer than MAX_FILE_SIZE fails and leaves
\* the file as it was, in both editors
C22_SaveWithinCap ==
    [][(lastCall'.op \in {"handleSave", "keySave"} /\ returned'.length > MAX_FILE_SIZE)
          => (~returned'.ok /\ content' = content)]_vars

----------------------------------------------------------------------------
(* Properties of undo, redo and the queries *)

\* a call moved the top of one stack onto the other and returned it
Moved(from, to, fromAfter, toAfter, call) ==
    /\ call.ok
    /\ call.id = Last(from).id
    /\ fromAfter = Front(from)
    /\ toAfter = Append(to, Last(from))

\* C23: undo removes exactly the top of the undo stack, pushes it on the redo
\* stack and returns it, redo does the same from the redo stack to the undo
\* stack, and on an empty stack either returns null and changes no stack
C23_UndoRedoMoveTop ==
    [][/\ lastCall'.op = "undo" =>
            IF Len(undoStack) = 0
            THEN ~lastCall'.ok /\ UNCHANGED <<undoStack, redoStack>>
            ELSE Moved(undoStack, redoStack, undoStack', redoStack', lastCall')
       /\ lastCall'.op = "redo" =>
            IF Len(redoStack) = 0
            THEN ~lastCall'.ok /\ UNCHANGED <<undoStack, redoStack>>
            ELSE Moved(redoStack, undoStack, redoStack', undoStack', lastCall')]_vars

\* a redo brought an action back on top of another one, and one is still undone
C23_Witness ==
    /\ lastCall.op = "redo" /\ lastCall.ok
    /\ Len(undoStack) >= 2
    /\ Len(redoStack) >= 1
    /\ Last(undoStack).id = lastCall.id

Queries == {"peekUndo", "peekRedo", "canUndo", "canRedo"}

\* the call that follows a peek returns what the peek returned
SameAsPeek(peek, call) ==
    /\ call.ok = peek.ok
    /\ peek.ok => call.id = peek.ret.id

\* C24: peekUndo, peekRedo, canUndo and canRedo change neither stack nor the
\* counter; peekUndo is null exactly when canUndo is false and returns what an
\* undo called right after it returns, and peekRedo likewise with canRedo and
\* redo
C24_QueriesAgree ==
    [][/\ lastCall'.op \in Queries => UNCHANGED <<historyVars, storeVars, heapVars>>
       /\ lastCall'.op = "peekUndo" => (returned'.ok <=> canUndo(History))
       /\ lastCall'.op = "peekRedo" => (returned'.ok <=> canRedo(History))
       /\ (lastCall.op = "peekUndo" /\ lastCall'.op = "undo") => SameAsPeek(returned, lastCall')
       /\ (lastCall.op = "peekRedo" /\ lastCall'.op = "redo") => SameAsPeek(returned, lastCall')
      ]_vars

\* an undo returned the action the peek before it had returned, from a stack
\* of two
C24_Witness ==
    /\ lastCall.op = "undo" /\ lastCall.ok
    /\ returned.op = "peekUndo" /\ returned.ok
    /\ returned.ret.id = lastCall.id
    /\ Len(undoStack) >= 1
    /\ Last(redoStack) = returned.ret

----------------------------------------------------------------------------
(* Properties of the grid bounds *)

\* n is in the half-open range from min to max
InRange(n, min, max) == ~LessThan(n, min) /\ LessThan(n, max)

\* p is inside every range setGridBounds was given, if it was called at all
InConfigured(p) ==
    returned.op = "setGridBounds" =>
        /\ InRange(p.x, returned.args.minX, returned.args.maxX)
        /\ InRange(p.y, returned.args.minY, returned.args.maxY)
        /\ returned.args.minZ # undefined
              => InRange(p.z, returned.args.minZ, returned.args.maxZ)

\* C25: addVoxel on an unoccupied position succeeds exactly if the position is
\* inside the half-open range of every axis that was given one; an axis given
\* no range, and a store whose setGridBounds was never called, reject nothing
C25_BoundsHalfOpen ==
    \A p \in GridPositions :
        ~Occupied(p) => (addVoxel(Store, p).ok <=> InConfigured(p))

----------------------------------------------------------------------------
(* Properties of painting *)

\* store T is store S with face f of voxel v painted c and nothing else changed
Painted(S, T, v, f, c) ==
    /\ T.colorMap = With(S.colorMap, <<v, f>>, c)
    /\ DOMAIN T.faceColor = DOMAIN S.faceColor
    /\ \A o \in DOMAIN S.faceColor :
          /\ DOMAIN T.faceColor[o] = DOMAIN S.faceColor[o]
          /\ \A g \in DOMAIN S.faceColor[o] :
                T.faceColor[o][g] = IF o = S.voxels[v].obj /\ g = f THEN c
                                    ELSE S.faceColor[o][g]
    /\ T.voxels = S.voxels
    /\ T.vertexIdCounter = S.vertexIdCounter
    /\ T.voxelIdCounter = S.voxelIdCounter
    /\ T.gridBounds = S.gridBounds
    /\ T.nextObj = S.nextObj

\* C26: colorSpecificFace(v, f, c) on a live voxel and one of its faces returns
\* true, sets the color-map entry of (v, f) and the color cached on the face to
\* c, and changes no other entry, no other face, no voxel, no counter and
\* neither history stack
C26_PaintFrame ==
    [][/\ \A v \in LiveIds :
            \A f \in faceIdsOf(voxels[v].faces), c \in PaintColors :
                LET r == colorSpecificFace(Store, v, f, c)
                IN  r.ok /\ r.ret = TRUE /\ Painted(Store, r.S, v, f, c)
       /\ (lastCall'.op = "colorSpecificFace" /\ lastCall'.ok) =>
            /\ UNCHANGED historyVars
            /\ \E f \in faceIdsOf(voxels[lastCall'.id].faces), c \in PaintColors :
                  Painted(Store, Store', lastCall'.id, f, c)]_vars

\* a face was painted twice, next to another live voxel
C26_Witness ==
    /\ lastCall.op = "colorSpecificFace" /\ lastCall.ok
    /\ paints = 2
    /\ Cardinality(DOMAIN colorMap) = 1
    /\ Cardinality(LiveIds) = 2

----------------------------------------------------------------------------
(* Properties of the serialized history *)

MintedId(H) == Last(pushAction(H, "colorFace", [voxelId |-> 0], "description", "main").undoStack).id

\* C28: after clear both stacks are empty, canUndo and canRedo are false, undo
\* and redo return null, and the next pushAction mints the id the first
\* pushAction on a new history mints
C28_ClearResets ==
    [][/\ lastCall'.op = "clearHistory" =>
            /\ undoStack' = << >> /\ redoStack' = << >>
            /\ ~canUndo(History') /\ ~canRedo(History')
            /\ ~undo(History').ok /\ undo(History').ret = NULL
            /\ ~redo(History').ok /\ redo(History').ret = NULL
            /\ MintedId(History') = MintedId(newHistory)
       /\ (lastCall.op = "clearHistory" /\ lastCall'.op = "pushAction") =>
            lastCall'.id = MintedId(newHistory)]_vars

\* a push after a clear minted the first id again, after the history
\* had held two actions
C28_Witness ==
    /\ lastCall.op = "pushAction"
    /\ lastCall.id = MintedId(newHistory)
    /\ Len(undoStack) = 1
    /\ content.written
    /\ content.history.actionIdCounter >= 2

----------------------------------------------------------------------------
(* Properties of validate *)

\* the elements of both stacks
AllActions(H) == H.undoStack \o H.redoStack

\* some element lacks an id, a type or a timestamp, or has an empty one
SomeIncomplete(H) ==
    \E i \in DOMAIN AllActions(H) :
        \/ isNull(AllActions(H)[i])
        \/ Falsy(AllActions(H)[i], "id", emptyId)
        \/ Falsy(AllActions(H)[i], "type", "")
        \/ Falsy(AllActions(H)[i], "timestamp", "")

\* two elements share an id
SomeShared(H) ==
    \E i, j \in DOMAIN AllActions(H) :
        /\ i # j
        /\ Has(AllActions(H)[i], "id") /\ Has(AllActions(H)[j], "id")
        /\ AllActions(H)[i].id = AllActions(H)[j].id

\* C29: validate returns false exactly if some action of either stack has an
\* empty or missing id, type or timestamp or two actions of the stacks share an
\* id, and it changes neither the stacks nor the counter
C29_ValidateIff ==
    [][lastCall'.op = "validate" =>
          /\ UNCHANGED <<historyVars, storeVars, heapVars>>
          /\ (~returned'.threw /\ ~returned'.ok)
                <=> (SomeIncomplete(History) \/ SomeShared(History))]_vars

----------------------------------------------------------------------------
(* Properties of the voxel records *)

Directions == {"x+", "x-", "y+", "y-", "z+", "z-"}

\* C30: getVertexCount is 8 times getVoxelCount, and every live voxel has 8
\* vertices and 6 faces, one for each direction
C30_EightAndSix ==
    /\ getVertexCount(Store) = 8 * getVoxelCount(Store)
    /\ \A id \in LiveIds :
          /\ Len(voxels[id].vertices) = 8
          /\ Len(voxels[id].faces) = 6
          /\ \A d \in Directions :
                Cardinality({k \in DOMAIN voxels[id].faces : voxels[id].faces[k].normal = d}) = 1

\* a deleted voxel was restored next to another live voxel
C30_Witness ==
    /\ lastCall.op = "restoreVoxel" /\ lastCall.ok
    /\ Cardinality(LiveIds) = 2
    /\ getVertexCount(Store) = 16

----------------------------------------------------------------------------
(* Properties of the display mesh *)

\* the meshes tagged with this voxel and face
MeshesOf(id, faceId) == {mesh \in returned.meshes : mesh.voxelId = id /\ mesh.faceId = faceId}

\* C31: right after toThreeMesh there is exactly one mesh for every face of
\* every live voxel, a voxel next to the face or not, 6 times the voxel count
\* in all; every mesh is tagged with a live voxel and one of its faces, and its
\* triangles are (0,1,2) and (0,2,3) over the face's vertices in stored order
C31_DisplayNeverCulls ==
    lastCall.op = "toThreeMesh" =>
        /\ Cardinality(returned.meshes) = 6 * getVoxelCount(Store)
        /\ \A id \in LiveIds : \A k \in DOMAIN voxels[id].faces :
              Cardinality(MeshesOf(id, voxels[id].faces[k].id)) = 1
        /\ \A mesh \in returned.meshes :
              /\ mesh.voxelId \in LiveIds
              /\ mesh.faceId \in faceIdsOf(voxels[mesh.voxelId].faces)
              /\ mesh.indices = <<0, 1, 2, 0, 2, 3>>
              /\ LET face == voxels[mesh.voxelId].faces[findFace(voxels[mesh.voxelId].faces,
                                                                 mesh.faceId)]
                 IN  \A j \in 1..4 :
                        \E v \in DOMAIN voxels[mesh.voxelId].vertices :
                            LET vertex == voxels[mesh.voxelId].vertices[v]
                            IN  /\ vertex.id = face.vertexIds[j]
                                /\ mesh.positions[j] = Vec(vertex.x, vertex.y, vertex.z)

\* two voxels side by side have been displayed, with all twelve faces
C31_Witness ==
    /\ lastCall.op = "toThreeMesh"
    /\ \E a, b \in LiveIds :
          /\ voxels[a].position = Vec(0, 0, 0)
          /\ voxels[b].position = Vec(1, 0, 0)
          /\ MeshesOf(a, "face_5") # {}
          /\ MeshesOf(b, "face_4") # {}
    /\ Cardinality(returned.meshes) = 12

----------------------------------------------------------------------------
(* Properties of the stack depth *)

\* C32: the undo stack holds at most maxStackSize actions
C32_UndoStackCapped == Len(undoStack) <= maxStackSize

----------------------------------------------------------------------------
(* Properties of the recorded edits *)

\* the inverse of an action has an effect on the store as it is
Undoable(action) ==
    CASE action.type = "addVoxel" -> action.data.voxelId \in LiveIds
      [] action.type = "deleteVoxel" ->
            /\ action.data.voxelId \notin LiveIds
            /\ ~Occupied(action.data.voxelData.position)
      [] action.type = "colorFace" ->
            /\ action.data.voxelId \in LiveIds
            /\ action.data.faceId \in faceIdsOf(voxels[action.data.voxelId].faces)

\* C33: in the editor, whenever the undo stack is not empty the inverse of its
\* top action is applicable: the voxel of an addVoxel is live, the voxel of a
\* deleteVoxel is not live and its position is free, the voxel and face of a
\* colorFace are live
C33_TopIsUndoable == Len(undoStack) > 0 => Undoable(Last(undoStack))

\* after an undo and a redo the top of the undo stack is a deletion, above
\* another action
C33_Witness ==
    /\ lastCall.op = "redoButton"
    /\ Len(undoStack) >= 2
    /\ Last(undoStack).type = "deleteVoxel"
    /\ Undoable(Last(undoStack))

----------------------------------------------------------------------------
(* Properties of loading in the editor *)

\* C34: a load that fails leaves the voxels, the color map, the counters and
\* the history as they were
C34_FailedLoadLeavesAll ==
    [][(lastCall'.op = "handleLoad" /\ ~lastCall'.ok) =>
          UNCHANGED <<voxels, colorMap, vertexIdCounter, voxelIdCounter, historyVars>>]_vars

\* the ids and positions of the voxels of the file that was read
FileView ==
    LET list == content.text.mainObject.voxels
    IN  {<<list[i].id, list[i].position>> : i \in DOMAIN list}

\* C40: when handleLoad ends successfully, whatever handlers ran while it
\* waited, the store holds exactly the voxels of the file and both history
\* stacks are empty
C40_LoadIsOneStep ==
    [][(lastCall'.op = "handleLoad" /\ lastCall'.ok) =>
          /\ {<<id, voxels'[id].position>> : id \in DOMAIN voxels'} = FileView
          /\ undoStack' = << >>
          /\ redoStack' = << >>]_vars

\* a load ended successfully after voxels were added and actions recorded
\* while it waited
C40_Witness ==
    /\ lastCall.op = "handleLoad" /\ lastCall.ok
    /\ Len(content.text.mainObject.voxels) = 2
    /\ nextObj > returned.objs + Len(content.text.mainObject.voxels)
    /\ Cardinality(LiveIds) = 2
    /\ ~canUndo(History) /\ ~canRedo(History)

\* the face ids of a live voxel
LiveFaces(voxelId) == faceIdsOf(voxels[voxelId].faces)

\* C35: every key of the color map names a live voxel and one of its faces
C35_NoOrphanColorKey ==
    \A key \in DOMAIN colorMap :
        /\ key[1] \in DOMAIN voxels
        /\ key[2] \in LiveFaces(key[1])

\* a painted voxel has just been deleted while another painted voxel is live
C35_Witness ==
    /\ lastCall.op = "deleteVoxel" /\ lastCall.ok
    /\ \E s \in snapshots : s.voxelId = lastCall.id /\ DOMAIN s.snapshot.colors # {}
    /\ DOMAIN colorMap # {}

\* C36: the color-map entry of a live face equals the color cached in the
\* face object, which snapshots share with the store
C36_MapEqualsCache ==
    \A key \in DOMAIN colorMap :
        (key[1] \in DOMAIN voxels /\ key[2] \in LiveFaces(key[1]))
            => colorMap[key] = faceColor[voxels[key[1]].obj][key[2]]

\* the store after the undo button's applyActionReverse of the edit on top of
\* the undo stack, as it would be pressed in the state a step leads to
AfterUndo == applyActionReverse(Store', peekUndo(History').ret)

\* C37: undoing a paint right after it gives back the color map there was
\* before the paint, keys and values
C37_PaintUndoRestoresMap ==
    [][lastCall'.op = "handlePaintFace" => AfterUndo.colorMap = colorMap]_vars

\* C38: once a text serialized from pushed actions has been deserialized,
\* each pushAction puts on the undo stack an action whose id no other action
\* of the stacks has, and validate is true after it
C38_PushAfterDeserializeIsFresh ==
    [][(returned.op = "deserialize" /\ returned.ok /\ lastCall'.op = "pushAction") =>
          /\ \A i \in 1..(Len(undoStack') - 1) : undoStack'[i].id # Last(undoStack').id
          /\ \A i \in DOMAIN redoStack' : redoStack'[i].id # Last(undoStack').id
          /\ validate(History').ok]_vars

\* the actions of both stacks, the undo stack first
BothStacks == undoStack \o redoStack

\* no two places of the stacks hold actions with the same id
DistinctIds ==
    \A i \in DOMAIN BothStacks, j \in DOMAIN BothStacks :
        BothStacks[i].id = BothStacks[j].id => i = j

\* C39: no action id is in both stacks or twice in one, and undo and redo
\* leave the number of actions in the two stacks together as it was
C39_MovedNotCopied ==
    /\ []DistinctIds
    /\ [][lastCall'.op \in {"undo", "redo"} =>
            Len(undoStack') + Len(redoStack') = Len(undoStack) + Len(redoStack)]_vars

\* an action has just been redone onto a non-empty undo stack while another
\* is still undone
C39_Witness ==
    /\ lastCall.op = "redo" /\ lastCall.ok
    /\ Len(redoStack) > 0
    /\ Len(undoStack) > 1

====
